---- MODULE Spec2Model ----
(***************************************************************************)
(* kconfig: session-local kubectl configuration files.                     *)
(*                                                                         *)
(* The model follows the shell functions kset/koff of kconfig-setup.sh,    *)
(* the kconfig-util subcommands they call, CreateLocalKubectlConfigFile    *)
(* and the kubectl launcher's one-shot mode.  Strings are TLA+ strings and *)
(* the string functions of the Go code (HasPrefix, IndexByte, Split, Join) *)
(* are computed character by character.                                    *)
(***************************************************************************)
EXTENDS Integers, Sequences, FiniteSets, TLC

VARIABLES
    files,      \* the filesystem: path -> file content
    env,        \* the shell's variables: name -> [set, val]
    kconfig,    \* the configuration read from ~/.kube/kconfig.yaml
    last,       \* the last command and what its process did
    steps,      \* number of commands run so far
    hist,       \* what the shell's variables were before kconfig changed them
    host,       \* where the launcher is installed: PATH, directory, executables
    peer        \* the variables of a second shell of the same user

vars == <<files, env, kconfig, last, steps, hist, host, peer>>

----------------------------------------------------------------------------
(* Bounds of the model. *)

\* number of distinct names os.CreateTemp can draw from
MaxSessionFiles == 2

\* number of commands in one run
MaxSteps == 2

\* number of kset and koff commands in one run of the shell functions alone
MaxShellSteps == 3

----------------------------------------------------------------------------
(* String functions of the Go standard library. *)

HasPrefix(s, p) == Len(s) >= Len(p) /\ SubSeq(s, 1, Len(p)) = p

RECURSIVE IndexFrom(_, _, _)
IndexFrom(s, c, i) ==
    IF i > Len(s) THEN 0
    ELSE IF SubSeq(s, i, i) = c THEN i
    ELSE IndexFrom(s, c, i + 1)

\* strings.IndexByte, 1-based; 0 stands for Go's -1
IndexByte(s, c) == IndexFrom(s, c, 1)

RECURSIVE ContainsFrom(_, _, _)
ContainsFrom(s, sub, i) ==
    IF i + Len(sub) - 1 > Len(s) THEN FALSE
    ELSE IF SubSeq(s, i, i + Len(sub) - 1) = sub THEN TRUE
    ELSE ContainsFrom(s, sub, i + 1)

Contains(s, sub) == ContainsFrom(s, sub, 1)

\* strings.Split for a one-character separator: Split("", c) is <<"">>
RECURSIVE Split(_, _)
Split(s, c) ==
    LET i == IndexByte(s, c) IN
    IF i = 0 THEN <<s>>
    ELSE <<SubSeq(s, 1, i - 1)>> \o Split(SubSeq(s, i + 1, Len(s)), c)

RECURSIVE Join(_, _)
Join(seq, sep) ==
    IF seq = <<>> THEN ""
    ELSE IF Len(seq) = 1 THEN seq[1]
    ELSE seq[1] \o sep \o Join(Tail(seq), sep)

\* filepath.SplitList: the empty string is the empty list
SplitList(path) == IF path = "" THEN <<>> ELSE Split(path, ":")

\* the tokens of a blank-separated definition (no quoting in the modelled
\* definitions): empty fields are dropped
Fields(s) == SelectSeq(Split(s, " "), LAMBDA t : t # "")

Range(seq) == {seq[i] : i \in DOMAIN seq}

----------------------------------------------------------------------------
(* Paths. *)

HomeDir == "/h"
kconfigContextName == "kconfig_context"
kconfigTmpSessionDir == "/tmp/kconfig/session"
kconfigTmpNicknameDir == "/tmp/kconfig/nicks"

\* clientcmd.RecommendedHomeFile, $HOME/.kube/config
RecommendedHomeFile == HomeDir \o "/.kube/config"
TestingConfig == HomeDir \o "/.kube/testing.config"
MissingConfig == HomeDir \o "/.kube/missing.config"

\* the names os.CreateTemp(dir, "*.yaml") can produce
SessionFileName(i) == kconfigTmpSessionDir \o "/" \o ToString(i) \o ".yaml"
SessionFiles == {SessionFileName(i) : i \in 1..MaxSessionFiles}

NicknameFileName(nickname) == kconfigTmpNicknameDir \o "/" \o nickname \o ".yaml"

BaseFiles == {RecommendedHomeFile, TestingConfig, MissingConfig}

----------------------------------------------------------------------------
(* File contents and kubectl configurations. *)

\* a file is absent, empty (zero bytes) or holds a serialized configuration
AbsentFile == [kind |-> "absent", cc |-> "", ctxs |-> {}]
EmptyFile == [kind |-> "empty", cc |-> "", ctxs |-> {}]
YamlFile(cc, ctxs) == [kind |-> "yaml", cc |-> cc, ctxs |-> ctxs]

Ctx(name, cluster, namespace, user) ==
    [name |-> name, cluster |-> cluster, namespace |-> namespace, user |-> user]

\* testdata/home/.kube/config
HomeConfigContent ==
    YamlFile("stage",
             {Ctx("dev", "dev", "devnamespace1", "devuser1"),
              Ctx("devnonamespace", "dev", "", "devuser1"),
              Ctx("prod", "prod", "prodnamespace1", "produser1"),
              Ctx("stage", "stage", "stagenamespace1", "stageuser1")})

\* testdata testing.config
TestingConfigContent ==
    YamlFile("test",
             {Ctx("test", "test", "testnamespace", "testuser"),
              Ctx("test2", "test2", "testnamespace", "testuser2")})

\* clientcmdapi.NewConfig()
NewConfig == [cc |-> "", ctxs |-> {}]

\* a context in memory carries the file it was loaded from
WithOrigin(c, origin) ==
    [name |-> c.name, cluster |-> c.cluster, namespace |-> c.namespace,
     user |-> c.user, origin |-> origin]

\* serialization drops LocationOfOrigin
WithoutOrigin(c) == Ctx(c.name, c.cluster, c.namespace, c.user)

HasContext(ctxs, name) == \E c \in ctxs : c.name = name
GetContext(ctxs, name) == CHOOSE c \in ctxs : c.name = name

\* clientcmd.LoadFromFile: contexts get LocationOfOrigin = the file's name
LoadFromFile(fs, path) ==
    [cc |-> fs[path].cc,
     ctxs |-> {WithOrigin(c, path) : c \in fs[path].ctxs}]

\* the loading rules' merge over a precedence list: missing files are
\* skipped, the first file to set a value or a map key wins
RECURSIVE LoadPrecedence(_, _)
LoadPrecedence(fs, paths) ==
    IF paths = <<>> THEN NewConfig
    ELSE LET rest == LoadPrecedence(fs, Tail(paths))
             p == Head(paths)
         IN IF p \notin DOMAIN fs \/ fs[p].kind = "absent" THEN rest
            ELSE LET head == LoadFromFile(fs, p) IN
                 [cc |-> IF head.cc # "" THEN head.cc ELSE rest.cc,
                  ctxs |-> head.ctxs \cup
                           {c \in rest.ctxs : ~HasContext(head.ctxs, c.name)}]

\* the default file is read after the files of the search path
ReadKubeConfigWithDefault(fs, searchPath) ==
    LoadPrecedence(fs, SplitList(searchPath) \o <<RecommendedHomeFile>>)

\* ReadKubeConfig with KUBECONFIG set to searchPath for the process
ReadKubeConfig(fs, searchPath) ==
    LoadPrecedence(fs, IF SplitList(searchPath) = <<>>
                       THEN <<RecommendedHomeFile>>
                       ELSE SplitList(searchPath))

----------------------------------------------------------------------------
(* Command-line options (github.com/jessevdk/go-flags). *)

\* config.KconfigOptions; TeleportProxy is the field createKsetArgs reads
NoOptions ==
    [KubeConfig |-> "", Context |-> "", Namespace |-> "", User |-> "",
     TeleportProxy |-> ""]

OptionFlags ==
    {"--kubeconfig", "--context", "-n", "--namespace", "--user",
     "--teleport-proxy"}

HelpFlags == {"-h", "--help"}

SetOption(opts, flag, value) ==
    CASE flag = "--kubeconfig" -> [opts EXCEPT !.KubeConfig = value]
      [] flag = "--context" -> [opts EXCEPT !.Context = value]
      [] flag \in {"-n", "--namespace"} -> [opts EXCEPT !.Namespace = value]
      [] flag = "--user" -> [opts EXCEPT !.User = value]
      [] flag = "--teleport-proxy" -> [opts EXCEPT !.TeleportProxy = value]

\* an argument that is an option: it starts with a dash and is longer than "-"
ArgumentIsOption(arg) == Len(arg) > 1 /\ Head(arg) = "-"

\* the parser's loop over the arguments, with HelpFlag and PassDoubleDash:
\* err is "" or the kind of the parse error
RECURSIVE ParseFrom(_, _, _, _)
ParseFrom(args, flags, opts, positional) ==
    IF args = <<>> THEN [err |-> "", opts |-> opts, positional |-> positional]
    ELSE LET arg == Head(args)
             rest == Tail(args)
         IN IF arg = "--"
                THEN [err |-> "", opts |-> opts, positional |-> positional \o rest]
            ELSE IF ~ArgumentIsOption(arg)
                THEN ParseFrom(rest, flags, opts, Append(positional, arg))
            ELSE IF arg \in HelpFlags
                THEN [err |-> "help", opts |-> opts, positional |-> positional]
            ELSE IF arg \notin flags
                THEN [err |-> "unknown flag", opts |-> opts, positional |-> positional]
            ELSE IF rest = <<>> \/ ArgumentIsOption(Head(rest))
                THEN [err |-> "expected argument", opts |-> opts,
                      positional |-> positional]
            ELSE ParseFrom(Tail(rest), flags, SetOption(opts, arg, Head(rest)), positional)

\* a command that takes the options of config.KconfigOptions
ParseArgs(args) == ParseFrom(args, OptionFlags, NoOptions, <<>>)

\* a command without options of its own
ParseArgsNoOptions(args) == ParseFrom(args, {}, NoOptions, <<>>)

----------------------------------------------------------------------------
(* What a process leaves behind: exit status, standard output (a sequence  *)
(* of statements), standard error (a sequence of messages), the files.     *)

Exited(status, out, err, fs) ==
    [exit |-> status, stdout |-> out, stderr |-> err, fs |-> fs]

\* statements of the standard output
Export(name, value) == [cmd |-> "export", name |-> name, value |-> value, ref |-> ""]
\* export name="$ref"
ExportRef(name, ref) == [cmd |-> "export", name |-> name, value |-> "", ref |-> ref]
Assign(name, value) == [cmd |-> "assign", name |-> name, value |-> value, ref |-> ""]
Unset(name) == [cmd |-> "unset", name |-> name, value |-> "", ref |-> ""]
\* text that is no statement (the parser's help)
Text(what) == [cmd |-> "text", name |-> what, value |-> "", ref |-> ""]

\* faults of the environment during one process
Faults == {"none", "kconfig", "kubeconfig", "mkdir", "createtemp",
           "write1", "write2", "remove"}

----------------------------------------------------------------------------
(* The preferences and nicknames of kconfig.yaml. *)

NoPreferences ==
    [DefaultKubectl |-> "", ChangePrompt |-> "nil",
     ShowOverridesInPrompt |-> "nil", AlwaysShowNamespaceInPrompt |-> FALSE,
     BaseKubeconfig |-> ""]

\* lookupKconfigNickname
NicknameExists(kc, nickname) == nickname \in DOMAIN kc.Nicknames

\* strings.TrimSpace, for blanks
RECURSIVE TrimSpace(_)
TrimSpace(s) ==
    IF s = "" THEN s
    ELSE IF SubSeq(s, 1, 1) = " " THEN TrimSpace(SubSeq(s, 2, Len(s)))
    ELSE IF SubSeq(s, Len(s), Len(s)) = " " THEN TrimSpace(SubSeq(s, 1, Len(s) - 1))
    ELSE s

\* readKconfig, one trimmed line of kalias.txt as it would be if its
\* definition replaced the one of kconfig.yaml
kaliasLineReplacing(nicknames, line, equals) ==
    IF line = "" \/ SubSeq(line, 1, 1) = "#" \/ equals = 0 THEN nicknames
    ELSE IF equals = Len(line) THEN nicknames
    ELSE (SubSeq(line, 1, equals - 1) :> SubSeq(line, equals + 1, Len(line)))
         @@ nicknames

\* readKconfig, one trimmed line of kalias.txt: blank lines, comments,
\* lines without "=", nicknames defined already and empty definitions are
\* skipped
kaliasLine(nicknames, line, equals) ==
    IF line = "" \/ SubSeq(line, 1, 1) = "#" \/ equals = 0 THEN nicknames
    ELSE IF SubSeq(line, 1, equals - 1) \in DOMAIN nicknames THEN nicknames
    ELSE IF equals = Len(line) THEN nicknames
    ELSE nicknames
         @@ (SubSeq(line, 1, equals - 1) :> SubSeq(line, equals + 1, Len(line)))

\* readKconfig, the loop over the lines of kalias.txt
RECURSIVE mergeKalias(_, _)
mergeKalias(nicknames, lines) ==
    IF lines = <<>> THEN nicknames
    ELSE mergeKalias(kaliasLine(nicknames, TrimSpace(Head(lines)),
                                IndexByte(TrimSpace(Head(lines)), "=")),
                     Tail(lines))

\* readKconfig: yaml is kconfig.yaml, [exists, ReadKaliasConfig, Nicknames],
\* and kalias is kalias.txt, [exists, lines]
readKconfig(yaml, kalias) ==
    [Preferences |-> NoPreferences,
     Nicknames |->
         IF (~yaml.exists \/ yaml.ReadKaliasConfig) /\ kalias.exists
             THEN mergeKalias(IF yaml.exists THEN yaml.Nicknames ELSE <<>>, kalias.lines)
         ELSE IF yaml.exists THEN yaml.Nicknames
         ELSE <<>>]

\* what parseNicknameDefinition makes of the parser's answer
parsedDefinition(exe, parsed) ==
    IF parsed.err = "help"
        THEN [err |-> <<>>, out |-> <<Text("help")>>,
              opts |-> NoOptions, exe |-> exe]
    ELSE IF parsed.err # ""
        THEN [err |-> <<parsed.err>>, out |-> <<>>,
              opts |-> NoOptions, exe |-> exe]
    ELSE IF Len(parsed.positional) > 0
        THEN [err |-> <<"The kconfig specification has unrecognized arguments: "
                        \o Join(parsed.positional, " ")>>,
              out |-> <<>>, opts |-> NoOptions, exe |-> exe]
    ELSE [err |-> <<>>, out |-> <<>>, opts |-> parsed.opts, exe |-> exe]

\* the first word is dropped but the default executable is kept
parseDefinitionWordsKeepingDefault(defaultExe, defnArgs) ==
    IF Len(defnArgs) = 0
        THEN [err |-> <<"The kconfig specification is empty">>, out |-> <<>>,
              opts |-> NoOptions, exe |-> defaultExe]
    ELSE IF Len(defnArgs[1]) > 0 /\ Head(defnArgs[1]) # "-"
        THEN parsedDefinition(defaultExe, ParseArgs(Tail(defnArgs)))
    ELSE parsedDefinition(defaultExe, ParseArgs(defnArgs))

\* the words of a definition: an optional executable, then the options
parseDefinitionWords(defaultExe, defnArgs) ==
    IF Len(defnArgs) = 0
        THEN [err |-> <<"The kconfig specification is empty">>, out |-> <<>>,
              opts |-> NoOptions, exe |-> defaultExe]
    ELSE IF Len(defnArgs[1]) > 0 /\ Head(defnArgs[1]) # "-"
        THEN parsedDefinition(defnArgs[1], ParseArgs(Tail(defnArgs)))
    ELSE parsedDefinition(defaultExe, ParseArgs(defnArgs))

\* parseNicknameDefinition: [err, out, opts, exe]; flags.ParseArgs is the
\* default parser, which prints its own errors: help goes to standard
\* output, every other error to standard error
parseNicknameDefinition(kc, definition) ==
    parseDefinitionWords(IF kc.Preferences.DefaultKubectl = "" THEN "kubectl"
                         ELSE kc.Preferences.DefaultKubectl,
                         Fields(definition))

----------------------------------------------------------------------------
(* clientcmd.ModifyConfig as CreateLocalKubectlConfigFile calls it: the     *)
(* starting configuration is read from the local file alone (GlobalFile,    *)
(* no EnvVar); every difference is written to the file its entry came from  *)
(* (LocationOfOrigin), or to the local file when it names none.             *)

RECURSIVE SetToSeq(_)
SetToSeq(S) ==
    IF S = {} THEN <<>>
    ELSE LET x == CHOOSE y \in S : TRUE IN <<x>> \o SetToSeq(S \ {x})

\* getConfigFromFile: a missing or empty file is an empty configuration
ConfigFromFile(fs, path) ==
    IF fs[path].kind = "yaml" THEN fs[path] ELSE YamlFile("", {})

Destination(origin, globalFile) == IF origin = "" THEN globalFile ELSE origin

\* the writes as they would be if the contexts that are gone were left in
\* their file
ModifyConfigWritesKeeping(fs, globalFile, newConfig) ==
    LET starting == LoadPrecedence(fs, <<globalFile>>)
        changed == {c \in newConfig.ctxs : c \notin starting.ctxs}
    IN (IF starting.cc # newConfig.cc
            THEN <<[op |-> "cc", dest |-> globalFile, cc |-> newConfig.cc]>>
            ELSE <<>>)
       \o [i \in 1..Cardinality(changed) |->
             LET c == SetToSeq(changed)[i] IN
             [op |-> "set", dest |-> Destination(c.origin, globalFile), ctx |-> c]]

\* the writes ModifyConfig performs, in order: the current context, the new
\* or changed contexts, the contexts that are gone
ModifyConfigWrites(fs, globalFile, newConfig) ==
    LET starting == LoadPrecedence(fs, <<globalFile>>)
        changed == {c \in newConfig.ctxs : c \notin starting.ctxs}
        gone == {c \in starting.ctxs : ~HasContext(newConfig.ctxs, c.name)}
    IN (IF starting.cc # newConfig.cc
            THEN <<[op |-> "cc", dest |-> globalFile, cc |-> newConfig.cc]>>
            ELSE <<>>)
       \o [i \in 1..Cardinality(changed) |->
             LET c == SetToSeq(changed)[i] IN
             [op |-> "set", dest |-> Destination(c.origin, globalFile), ctx |-> c]]
       \o [i \in 1..Cardinality(gone) |->
             LET c == SetToSeq(gone)[i] IN
             [op |-> "del", dest |-> Destination(c.origin, globalFile), ctx |-> c]]

\* one WriteToFile: read the destination, change the stanza, write it back
ApplyWrite(fs, w) ==
    LET cur == ConfigFromFile(fs, w.dest) IN
    [fs EXCEPT ![w.dest] =
        CASE w.op = "cc" -> YamlFile(w.cc, cur.ctxs)
          [] w.op = "set" ->
                YamlFile(cur.cc, {c \in cur.ctxs : c.name # w.ctx.name}
                                 \cup {WithoutOrigin(w.ctx)})
          [] w.op = "del" ->
                YamlFile(cur.cc, {c \in cur.ctxs : c.name # w.ctx.name})]

RECURSIVE ApplyWrites(_, _)
ApplyWrites(fs, ws) ==
    IF ws = <<>> THEN fs ELSE ApplyWrites(ApplyWrite(fs, Head(ws)), Tail(ws))

\* failAt = k > 0: the k-th write fails; the writes before it are on disk
ModifyConfig(fs, globalFile, newConfig, failAt) ==
    LET ws == ModifyConfigWrites(fs, globalFile, newConfig) IN
    IF failAt > 0 /\ failAt <= Len(ws)
        THEN [err |-> TRUE, fs |-> ApplyWrites(fs, SubSeq(ws, 1, failAt - 1))]
        ELSE [err |-> FALSE, fs |-> ApplyWrites(fs, ws)]

FailAt(fault) == CASE fault = "write1" -> 1 [] fault = "write2" -> 2 [] OTHER -> 0

----------------------------------------------------------------------------
(* CreateLocalKubectlConfigFile and its helpers. *)

\* KUBECONFIG is never taken to name a session file
IgnoreExistingSessionFile(kubeconfigEnvVar) == ""

\* the session file is looked for under the nickname directory
ExistingFilenameInNicknameDir(kubeconfigEnvVar) ==
    IF kubeconfigEnvVar = "" \/ ~HasPrefix(kubeconfigEnvVar, kconfigTmpNicknameDir)
        THEN ""
    ELSE LET pathSeparator == IndexByte(kubeconfigEnvVar, ":") IN
         IF pathSeparator # 0 THEN SubSeq(kubeconfigEnvVar, 1, pathSeparator - 1)
         ELSE kubeconfigEnvVar

\* a value with a path separator is not taken to name a session file
ExistingFilenameWithoutSeparator(kubeconfigEnvVar) ==
    IF kubeconfigEnvVar = "" \/ ~HasPrefix(kubeconfigEnvVar, kconfigTmpSessionDir)
        THEN ""
    ELSE IF IndexByte(kubeconfigEnvVar, ":") # 0 THEN ""
    ELSE kubeconfigEnvVar

\* GetExistingSessionLocalFilename
GetExistingSessionLocalFilename(kubeconfigEnvVar) ==
    IF kubeconfigEnvVar = "" \/ ~HasPrefix(kubeconfigEnvVar, kconfigTmpSessionDir)
        THEN ""
    ELSE LET pathSeparator == IndexByte(kubeconfigEnvVar, ":") IN
         IF pathSeparator # 0 THEN SubSeq(kubeconfigEnvVar, 1, pathSeparator - 1)
         ELSE kubeconfigEnvVar

\* the nickname's option wins over the override
SearchPathNicknameFirst(kc, nicknameOptions, kconfigOptions) ==
    LET s0 == kc.Preferences.BaseKubeconfig
        s1 == IF kconfigOptions.KubeConfig # "" THEN kconfigOptions.KubeConfig ELSE s0
        s2 == IF nicknameOptions.KubeConfig # "" THEN nicknameOptions.KubeConfig ELSE s1
    IN s2

\* the search path for reading the base configuration: the preference,
\* replaced by the nickname's option, replaced by the override
SearchPath(kc, nicknameOptions, kconfigOptions) ==
    LET s0 == kc.Preferences.BaseKubeconfig
        s1 == IF nicknameOptions.KubeConfig # "" THEN nicknameOptions.KubeConfig ELSE s0
        s2 == IF kconfigOptions.KubeConfig # "" THEN kconfigOptions.KubeConfig ELSE s1
    IN s2

\* the nickname's context wins over the override
BaseContextNicknameFirst(kubeconfig, nicknameOptions, kconfigOptions) ==
    LET b0 == kubeconfig.cc
        b1 == IF kconfigOptions.Context # "" THEN kconfigOptions.Context ELSE b0
        b2 == IF nicknameOptions.Context # "" THEN nicknameOptions.Context ELSE b1
    IN b2

\* the kubectl context to refer to
BaseContext(kubeconfig, nicknameOptions, kconfigOptions) ==
    LET b0 == kubeconfig.cc
        b1 == IF nicknameOptions.Context # "" THEN nicknameOptions.Context ELSE b0
        b2 == IF kconfigOptions.Context # "" THEN kconfigOptions.Context ELSE b1
    IN b2

\* only a namespace asks for a context of its own
NeedNewContextForNamespace(nicknameOptions, kconfigOptions) ==
    nicknameOptions.Namespace # "" \/ kconfigOptions.Namespace # ""

NeedNewContext(nicknameOptions, kconfigOptions) ==
    nicknameOptions.Namespace # "" \/ nicknameOptions.User # ""
    \/ kconfigOptions.Namespace # "" \/ kconfigOptions.User # ""

\* the overrides are applied first, so the nickname's values win
NewContextNicknameWins(contextDefn, nicknameOptions, kconfigOptions) ==
    LET c0 == [contextDefn EXCEPT !.origin = ""]
        c1 == IF kconfigOptions.Namespace # ""
                  THEN [c0 EXCEPT !.namespace = kconfigOptions.Namespace] ELSE c0
        c2 == IF nicknameOptions.Namespace # ""
                  THEN [c1 EXCEPT !.namespace = nicknameOptions.Namespace] ELSE c1
        c3 == IF kconfigOptions.User # ""
                  THEN [c2 EXCEPT !.user = kconfigOptions.User] ELSE c2
        c4 == IF nicknameOptions.User # ""
                  THEN [c3 EXCEPT !.user = nicknameOptions.User] ELSE c3
    IN [c4 EXCEPT !.name = kconfigContextName]

\* a copy that keeps LocationOfOrigin: ModifyConfig then writes the changed
\* context to the file the context was loaded from
NewContextKeepingOrigin(contextDefn, nicknameOptions, kconfigOptions) ==
    LET c1 == IF nicknameOptions.Namespace # ""
                  THEN [contextDefn EXCEPT !.namespace = nicknameOptions.Namespace]
                  ELSE contextDefn
        c2 == IF kconfigOptions.Namespace # ""
                  THEN [c1 EXCEPT !.namespace = kconfigOptions.Namespace] ELSE c1
        c3 == IF nicknameOptions.User # ""
                  THEN [c2 EXCEPT !.user = nicknameOptions.User] ELSE c2
        c4 == IF kconfigOptions.User # ""
                  THEN [c3 EXCEPT !.user = kconfigOptions.User] ELSE c3
    IN [c4 EXCEPT !.name = kconfigContextName]

\* the copy of the referenced context: LocationOfOrigin cleared, then the
\* namespace and the user set from the nickname and from the overrides
NewContext(contextDefn, nicknameOptions, kconfigOptions) ==
    LET c0 == [contextDefn EXCEPT !.origin = ""]
        c1 == IF nicknameOptions.Namespace # ""
                  THEN [c0 EXCEPT !.namespace = nicknameOptions.Namespace] ELSE c0
        c2 == IF kconfigOptions.Namespace # ""
                  THEN [c1 EXCEPT !.namespace = kconfigOptions.Namespace] ELSE c1
        c3 == IF nicknameOptions.User # ""
                  THEN [c2 EXCEPT !.user = nicknameOptions.User] ELSE c2
        c4 == IF kconfigOptions.User # ""
                  THEN [c3 EXCEPT !.user = kconfigOptions.User] ELSE c3
    IN [c4 EXCEPT !.name = kconfigContextName]

\* the content for the local kubectl config file
NewConfigFileContent(contextDefn, baseContext, nicknameOptions, kconfigOptions) ==
    IF ~NeedNewContext(nicknameOptions, kconfigOptions)
        THEN [cc |-> baseContext, ctxs |-> {}]
        ELSE [cc |-> kconfigContextName,
              ctxs |-> {NewContext(contextDefn, nicknameOptions, kconfigOptions)}]

\* the description of the overrides given on the command line
Overrides(kconfigOptions) ==
    (IF kconfigOptions.Namespace # "" THEN <<"ns=" \o kconfigOptions.Namespace>>
     ELSE <<>>)
    \o (IF kconfigOptions.User # "" THEN <<"u=" \o kconfigOptions.User>> ELSE <<>>)

\* the Teleport proxy of the nickname, replaced by the override
TeleportProxyEnvVar(nicknameOptions, kconfigOptions) ==
    IF kconfigOptions.TeleportProxy # "" THEN kconfigOptions.TeleportProxy
    ELSE nicknameOptions.TeleportProxy

\* the namespace of the context the local file selects
ContextNamespace(content, contextDefn) ==
    LET ns == IF content.ctxs = {} THEN contextDefn.namespace
              ELSE GetContext(content.ctxs, kconfigContextName).namespace
    IN IF ns = "" THEN "default" ELSE ns

CreateFailed(err, out, fs) ==
    [ok |-> FALSE, stdout |-> out, stderr |-> err, fs |-> fs,
     NewKubeconfigEnvVar |-> "", KubectlExecutable |-> "",
     OverridesDescription |-> "", TeleportProxyEnvVar |-> "",
     ContextNamespace |-> ""]

\* the end of CreateLocalKubectlConfigFile: the file ModifyConfig could not
\* write is removed when this call created it; otherwise the results
localConfigFileResults(fileIsEmpty, localConfigFilename, kconfigOptions, nicknameOptions, exe, searchPath, contextDefn, content, modified) ==
    IF modified.err
        THEN CreateFailed(
                 <<"Error creating the session-local kubectl configuration file">>,
                 <<>>,
                 IF fileIsEmpty
                     THEN [modified.fs EXCEPT ![localConfigFilename] = AbsentFile]
                     ELSE modified.fs)
    ELSE [ok |-> TRUE, stdout |-> <<>>, stderr |-> <<>>, fs |-> modified.fs,
          NewKubeconfigEnvVar |->
              localConfigFilename \o ":"
              \o (IF searchPath = "" THEN RecommendedHomeFile ELSE searchPath),
          KubectlExecutable |-> exe,
          OverridesDescription |-> Join(Overrides(kconfigOptions), ","),
          TeleportProxyEnvVar |-> TeleportProxyEnvVar(nicknameOptions, kconfigOptions),
          ContextNamespace |-> ContextNamespace(content, contextDefn)]

\* the local file is named and, when it is new, created; then it is written
writeLocalConfigFile(fs, fault, tmp, existing, kconfigOptions, nicknameOptions, exe, searchPath, contextDefn, content) ==
    IF fault = "mkdir"
        THEN CreateFailed(<<"Unable to create temporary directory">>, <<>>, fs)
    ELSE IF existing = "" /\ fault = "createtemp"
        THEN CreateFailed(<<"Unable to create session-local temporary kubectl config file">>,
                          <<>>, fs)
    ELSE localConfigFileResults(
             existing = "", IF existing = "" THEN tmp ELSE existing,
             kconfigOptions, nicknameOptions, exe, searchPath, contextDefn, content,
             ModifyConfig(IF existing = "" THEN [fs EXCEPT ![tmp] = EmptyFile] ELSE fs,
                          IF existing = "" THEN tmp ELSE existing,
                          content, FailAt(fault)))

\* the base context is looked up in the configuration read and the content
\* of the local file is built from it
createFromBaseContext(fs, fault, tmp, existing, kconfigOptions, nicknameOptions, exe, searchPath, kubeconfig, baseContext) ==
    IF baseContext = ""
        THEN CreateFailed(<<"There is no current context in search path: "
                            \o searchPath>>, <<>>, fs)
    ELSE IF ~HasContext(kubeconfig.ctxs, baseContext)
        THEN CreateFailed(<<"Context \"" \o baseContext \o "\" doesn't exist.">>,
                          <<>>, fs)
    ELSE writeLocalConfigFile(
             fs, fault, tmp, existing, kconfigOptions, nicknameOptions, exe, searchPath,
             GetContext(kubeconfig.ctxs, baseContext),
             NewConfigFileContent(GetContext(kubeconfig.ctxs, baseContext), baseContext,
                                  nicknameOptions, kconfigOptions))

\* the kubectl configuration is read from the search path
createFromSearchPath(fs, fault, tmp, existing, kconfigOptions, nicknameOptions, exe, searchPath, kubeconfig) ==
    IF fault = "kubeconfig"
        THEN CreateFailed(<<"Error reading kubectl config file(s)">>, <<>>, fs)
    ELSE createFromBaseContext(
             fs, fault, tmp, existing, kconfigOptions, nicknameOptions, exe, searchPath,
             kubeconfig, BaseContext(kubeconfig, nicknameOptions, kconfigOptions))

\* the nickname's definition is parsed
createFromDefinition(fs, kc, fault, tmp, existing, kconfigOptions, parsedDefn) ==
    IF parsedDefn.err # <<>> \/ parsedDefn.out # <<>>
        THEN CreateFailed(parsedDefn.err, parsedDefn.out, fs)
    ELSE createFromSearchPath(
             fs, fault, tmp, existing, kconfigOptions, parsedDefn.opts, parsedDefn.exe,
             SearchPath(kc, parsedDefn.opts, kconfigOptions),
             ReadKubeConfig(fs, SearchPath(kc, parsedDefn.opts, kconfigOptions)))

\* CreateLocalKubectlConfigFile as it would be if a nickname without a
\* definition stood for kubectl alone
CreateLocalKubectlConfigFileOfAnyNickname(fs, kubeconfigEnvVar, kc, nickname, kconfigOptions, sessionFile, fault, tmp) ==
    IF fault = "kconfig"
        THEN CreateFailed(<<"Error reading kconfig configuration file(s)">>, <<>>, fs)
    ELSE createFromDefinition(
             fs, kc, fault, tmp,
             IF sessionFile THEN GetExistingSessionLocalFilename(kubeconfigEnvVar)
                            ELSE NicknameFileName(nickname),
             kconfigOptions,
             parseNicknameDefinition(kc, IF NicknameExists(kc, nickname)
                                             THEN kc.Nicknames[nickname] ELSE "kubectl"))

\* CreateLocalKubectlConfigFile(nickname, kconfigOptions, sessionFile) in a
\* process whose KUBECONFIG is kubeconfigEnvVar; tmp is the name
\* os.CreateTemp draws when a session file has to be created
CreateLocalKubectlConfigFile(fs, kubeconfigEnvVar, kc, nickname, kconfigOptions, sessionFile, fault, tmp) ==
    IF fault = "kconfig"
        THEN CreateFailed(<<"Error reading kconfig configuration file(s)">>, <<>>, fs)
    ELSE IF ~NicknameExists(kc, nickname)
        THEN CreateFailed(<<"Nickname \"" \o nickname \o "\" is not defined.">>,
                          <<>>, fs)
    ELSE createFromDefinition(
             fs, kc, fault, tmp,
             IF sessionFile THEN GetExistingSessionLocalFilename(kubeconfigEnvVar)
                            ELSE NicknameFileName(nickname),
             kconfigOptions,
             parseNicknameDefinition(kc, kc.Nicknames[nickname]))

----------------------------------------------------------------------------
(* The shell's variables. *)

EnvNames ==
    {"KUBECONFIG", "_KCONFIG_KUBECTL", "_KCONFIG_KSET", "_KCONFIG_OLDKSET",
     "TELEPORT_PROXY", "PS1", "_KCONFIG_OLD_PS1", "_KP"}

UnsetVar == [set |-> FALSE, val |-> ""]
SetVar(value) == [set |-> TRUE, val |-> value]

\* os.Getenv, "$NAME": unset reads as empty
Getenv(e, name) == IF e[name].set THEN e[name].val ELSE ""

----------------------------------------------------------------------------
(* kconfig-util kset. *)

\* stands for the unit separator 0x1F
ksetEnvVarDelimiter == "|"

\* createKsetArgs
createKsetArgs(nickname, kconfigOptions) ==
    LET args == <<nickname>>
            \o (IF kconfigOptions.KubeConfig # ""
                    THEN <<"--kubeconfig", kconfigOptions.KubeConfig>> ELSE <<>>)
            \o (IF kconfigOptions.Context # ""
                    THEN <<"--context", kconfigOptions.Context>> ELSE <<>>)
            \o (IF kconfigOptions.Namespace # ""
                    THEN <<"-n", kconfigOptions.Namespace>> ELSE <<>>)
            \o (IF kconfigOptions.User # ""
                    THEN <<"--user", kconfigOptions.User>> ELSE <<>>)
            \o (IF kconfigOptions.TeleportProxy # ""
                    THEN <<"--teleport-proxy", kconfigOptions.TeleportProxy>> ELSE <<>>)
        delimiter == IF Contains(nickname, " ")
                        \/ Contains(kconfigOptions.KubeConfig, " ")
                        \/ Contains(kconfigOptions.Context, " ")
                        \/ Contains(kconfigOptions.Namespace, " ")
                        \/ Contains(kconfigOptions.User, " ")
                        \/ Contains(kconfigOptions.TeleportProxy, " ")
                     THEN ksetEnvVarDelimiter ELSE " "
    IN IF kconfigOptions = NoOptions THEN nickname ELSE Join(args, delimiter)

\* getArgsFromKsetArgs
getArgsFromKsetArgs(ksetEnvValue) ==
    Split(ksetEnvValue,
          IF Contains(ksetEnvValue, ksetEnvVarDelimiter)
              THEN ksetEnvVarDelimiter ELSE " ")

\* getNicknameFromKsetArgs
getNicknameFromKsetArgs(ksetEnvValue) ==
    LET ksetArgs == getArgsFromKsetArgs(ksetEnvValue) IN
    IF Len(ksetArgs) = 0 THEN "" ELSE ksetArgs[1]

DashMessage ==
    "A kconfig nickname of \"-\" can only be used when a previous kconfig environment is in effect."
NoNicknameMessage ==
    "A kconfig nickname must be specified unless one is already in effect."

\* Execute as it would be if the arguments after the nickname were ignored
ksetExecuteFirstArgument(e, args) ==
    IF Len(args) = 0
        THEN IF Getenv(e, "_KCONFIG_KSET") = "" THEN NoNicknameMessage ELSE ""
    ELSE IF args[1] = "-" /\ Getenv(e, "_KCONFIG_OLDKSET") = ""
        THEN DashMessage
    ELSE ""

\* ksetCommandOptions.Execute: "" or the error
ksetExecute(e, args) ==
    IF Len(args) = 0
        THEN IF Getenv(e, "_KCONFIG_KSET") = "" THEN NoNicknameMessage ELSE ""
    ELSE IF Len(args) = 1
        THEN IF args[1] = "-" /\ Getenv(e, "_KCONFIG_OLDKSET") = ""
                 THEN DashMessage ELSE ""
    ELSE "Unrecognized positional argument provided after the kconfig nickname."

\* the end of parseOptions: the subcommand's Execute sees the positional
\* arguments
executeKset(e, parsed) ==
    IF parsed.err # "" THEN parsed
    ELSE [err |-> ksetExecute(e, parsed.positional), opts |-> parsed.opts,
          positional |-> parsed.positional]

\* parseOptions as it would be if "-" stood for the previous environment
\* whatever follows it
parseOptionsDashFirst(e, args) ==
    IF args # <<>> /\ args[1] = "-"
        THEN IF Getenv(e, "_KCONFIG_OLDKSET") = ""
                 THEN [err |-> "A kconfig nickname of \"-\" can only be used when a kconfig environment was previously in effect.",
                       opts |-> NoOptions, positional |-> <<>>]
             ELSE executeKset(e, ParseArgs(getArgsFromKsetArgs(Getenv(e, "_KCONFIG_OLDKSET"))
                                           \o Tail(args)))
    ELSE executeKset(e, ParseArgs(args))

\* parseOptions for the kset subcommand: [err, opts, positional]
parseOptions(e, args) ==
    IF args = <<"-">>
        THEN IF Getenv(e, "_KCONFIG_OLDKSET") = ""
                 THEN [err |-> "A kconfig nickname of \"-\" can only be used when a kconfig environment was previously in effect.",
                       opts |-> NoOptions, positional |-> <<>>]
             ELSE executeKset(e, ParseArgs(getArgsFromKsetArgs(Getenv(e, "_KCONFIG_OLDKSET"))))
    ELSE executeKset(e, ParseArgs(args))

\* the overrides are shown whatever show_overrides_in_prompt says
PromptPrefixAlwaysWithOverrides(kc, nickname, createResults) ==
    IF createResults.OverridesDescription # ""
        THEN nickname \o "[" \o createResults.OverridesDescription \o "]"
    ELSE nickname

\* the prefix for the shell prompt
PromptPrefix(kc, nickname, createResults) ==
    LET showOverrides == kc.Preferences.ShowOverridesInPrompt \in {"nil", "true"}
        always == kc.Preferences.AlwaysShowNamespaceInPrompt
        desc == createResults.OverridesDescription
    IN IF desc # "" /\ showOverrides
           THEN nickname \o "["
                \o (IF always /\ ~Contains(desc, "ns=")
                        THEN "ns=" \o createResults.ContextNamespace \o "," \o desc
                        ELSE desc)
                \o "]"
       ELSE IF always
           THEN nickname \o "[ns=" \o createResults.ContextNamespace \o "]"
       ELSE nickname

\* the statements ksetProcessor prints for the shell to evaluate
ksetStatements(e, kc, nickname, ksetDescription, createResults) ==
    IF ~createResults.ok
        THEN Exited(1, createResults.stdout, createResults.stderr, createResults.fs)
    ELSE Exited(0,
             <<Export("KUBECONFIG", createResults.NewKubeconfigEnvVar)>>
             \o (IF createResults.TeleportProxyEnvVar # ""
                     THEN <<Export("TELEPORT_PROXY", createResults.TeleportProxyEnvVar)>>
                     ELSE <<>>)
             \o (IF kc.Preferences.ChangePrompt \in {"nil", "true"}
                     THEN <<Assign("_KP", PromptPrefix(kc, nickname, createResults))>>
                     ELSE <<>>)
             \o <<Export("_KCONFIG_KUBECTL", createResults.KubectlExecutable)>>
             \o (IF Getenv(e, "_KCONFIG_KSET") # ""
                    /\ Getenv(e, "_KCONFIG_KSET") # ksetDescription
                     THEN <<ExportRef("_KCONFIG_OLDKSET", "_KCONFIG_KSET")>>
                     ELSE <<>>)
             \o <<Export("_KCONFIG_KSET", ksetDescription)>>,
             <<>>, createResults.fs)

\* ksetProcessor once the nickname is deduced
ksetNickname(fs, e, kc, positionalArgs, ksetOptions, fault, tmp, nickname) ==
    IF Len(positionalArgs) = 0 /\ nickname = ""
        THEN Exited(1, <<>>, <<NoNicknameMessage>>, fs)
    ELSE IF Len(positionalArgs) > 0 /\ positionalArgs[1] = "-" /\ nickname = ""
        THEN Exited(1, <<>>, <<DashMessage>>, fs)
    ELSE ksetStatements(
             e, kc, nickname, createKsetArgs(nickname, ksetOptions),
             CreateLocalKubectlConfigFile(fs, Getenv(e, "KUBECONFIG"), kc, nickname,
                                          ksetOptions, TRUE, fault, tmp))

\* ksetProcessor, after the options are parsed
ksetProcessor(fs, e, kc, positionalArgs, ksetOptions, fault, tmp) ==
    ksetNickname(fs, e, kc, positionalArgs, ksetOptions, fault, tmp,
                 IF Len(positionalArgs) = 0
                     THEN getNicknameFromKsetArgs(Getenv(e, "_KCONFIG_KSET"))
                 ELSE IF positionalArgs[1] = "-"
                     THEN getNicknameFromKsetArgs(Getenv(e, "_KCONFIG_OLDKSET"))
                 ELSE positionalArgs[1])

\* main of kconfig-util for the kset subcommand, given the parsed options
ksetMain(fs, e, kc, fault, tmp, parsed) ==
    IF parsed.err # "" THEN Exited(1, <<>>, <<parsed.err>>, fs)
    ELSE ksetProcessor(fs, e, kc, parsed.positional, parsed.opts, fault, tmp)

\* the process "kconfig-util kset args"
KconfigUtilKset(fs, e, kc, args, fault, tmp) ==
    ksetMain(fs, e, kc, fault, tmp, parseOptions(e, args))

----------------------------------------------------------------------------
(* kconfig-util koff. *)

\* koffCommandOptions.Execute
koffExecute(args) ==
    IF Len(args) > 0 THEN "Unrecognized positional arguments provided." ELSE ""

\* KUBECONFIG is given back the value that follows the session file
koffProcessorKeepingPath(fs, e, kc, fault) ==
    LET kubeconfigEnvVar == Getenv(e, "KUBECONFIG")
        localConfigFilename == GetExistingSessionLocalFilename(kubeconfigEnvVar)
        rest == IF localConfigFilename = "" THEN kubeconfigEnvVar
                ELSE SubSeq(kubeconfigEnvVar, Len(localConfigFilename) + 2,
                            Len(kubeconfigEnvVar))
        removed == IF localConfigFilename # ""
                       THEN [fs EXCEPT ![localConfigFilename] = AbsentFile]
                       ELSE fs
    IN IF kubeconfigEnvVar = "" THEN Exited(0, <<>>, <<>>, fs)
       ELSE IF fault = "kconfig"
           THEN Exited(1, <<>>, <<"Error reading kconfig configuration file(s)">>,
                       removed)
       ELSE Exited(0, <<Export("KUBECONFIG", rest)>>, <<>>, removed)

\* koffProcessor
koffProcessor(fs, e, kc, fault) ==
    LET kubeconfigEnvVar == Getenv(e, "KUBECONFIG")
        localConfigFilename == GetExistingSessionLocalFilename(kubeconfigEnvVar)
        removeFails == fault = "remove" /\ localConfigFilename # ""
                       /\ fs[localConfigFilename].kind # "absent"
        removed == IF localConfigFilename # "" /\ ~removeFails
                       THEN [fs EXCEPT ![localConfigFilename] = AbsentFile]
                       ELSE fs
        removeError == IF removeFails
                           THEN <<"Error removing session-local kubectl configuration file">>
                           ELSE <<>>
        baseKubeconfig == kc.Preferences.BaseKubeconfig
    IN IF kubeconfigEnvVar = "" THEN Exited(0, <<>>, <<>>, fs)
       ELSE IF fault = "kconfig"
           THEN Exited(1, <<>>,
                       removeError \o <<"Error reading kconfig configuration file(s)">>,
                       removed)
       ELSE Exited(0,
                (IF baseKubeconfig # "" THEN <<Export("KUBECONFIG", baseKubeconfig)>>
                 ELSE <<Unset("KUBECONFIG")>>)
                \o (IF Getenv(e, "_KCONFIG_KSET") # ""
                        THEN <<ExportRef("_KCONFIG_OLDKSET", "_KCONFIG_KSET")>>
                        ELSE <<>>),
                removeError, removed)

\* the process "kconfig-util koff args"
KconfigUtilKoff(fs, e, kc, args, fault) ==
    LET parsed == ParseArgsNoOptions(args)
        executed == koffExecute(parsed.positional)
    IN IF parsed.err # "" THEN Exited(1, <<>>, <<parsed.err>>, fs)
       ELSE IF executed # "" THEN Exited(1, <<>>, <<executed>>, fs)
       ELSE koffProcessor(fs, e, kc, fault)

----------------------------------------------------------------------------
(* The shell functions of kconfig-setup.sh. *)

\* eval $(...): the output is split into words and evaluated as ONE command
\* line, so the first word is the command and every later word one of its
\* arguments; "$NAME" is expanded before the command runs.
Expanded(e, line) == IF line.ref # "" THEN Getenv(e, line.ref) ELSE line.value

\* export w1 w2 ...: every word NAME=value is assigned; the other words
\* ("export", "unset", a bare name) change no value
RECURSIVE EvalExport(_, _, _)
EvalExport(lines, e0, e) ==
    IF lines = <<>> THEN e
    ELSE LET l == Head(lines) IN
         EvalExport(Tail(lines), e0,
                    IF l.cmd \in {"export", "assign"}
                        THEN [e EXCEPT ![l.name] = SetVar(Expanded(e0, l))]
                        ELSE e)

\* unset w1 w2 ...: every word that is a name is unset; a word NAME=value
\* is not a valid identifier and is skipped
RECURSIVE EvalUnset(_, _)
EvalUnset(lines, e) ==
    IF lines = <<>> THEN e
    ELSE LET l == Head(lines) IN
         EvalUnset(Tail(lines),
                   IF l.cmd = "unset" THEN [e EXCEPT ![l.name] = UnsetVar] ELSE e)

Eval(lines, e) ==
    IF lines = <<>> THEN e
    ELSE IF Head(lines).cmd = "export" THEN EvalExport(lines, e, e)
    ELSE IF Head(lines).cmd = "unset" THEN EvalUnset(lines, e)
    ELSE e

\* function kset, after the eval: the prompt, from _KP
ksetPrompt(e1, kp) ==
    IF kp = "" THEN e1
    ELSE IF Getenv(e1, "_KCONFIG_OLD_PS1") = ""
        THEN [e1 EXCEPT !["_KCONFIG_OLD_PS1"] = SetVar(Getenv(e1, "PS1")),
                        !["PS1"] = SetVar("(" \o kp \o ") " \o Getenv(e1, "PS1"))]
    ELSE [e1 EXCEPT !["PS1"] =
              SetVar("(" \o kp \o ") " \o Getenv(e1, "_KCONFIG_OLD_PS1"))]

\* the local _KP goes out of scope when the function returns
ksetEvaluated(e, e1) == [ksetPrompt(e1, Getenv(e1, "_KP")) EXCEPT !["_KP"] = e["_KP"]]

\* function kset, given what the kconfig-util process wrote
ksetShell(e, stdout) ==
    ksetEvaluated(e, Eval(stdout, [e EXCEPT !["_KP"] = UnsetVar]))

\* function koff, before it calls kconfig-util: restore the prompt
koffShellBefore(e) ==
    IF Getenv(e, "_KCONFIG_OLD_PS1") # ""
        THEN [e EXCEPT !["PS1"] = SetVar(Getenv(e, "_KCONFIG_OLD_PS1")),
                       !["_KCONFIG_OLD_PS1"] = UnsetVar]
        ELSE e

\* function koff, after it: more cleanup
koffShellAfter(e) ==
    [e EXCEPT !["_KCONFIG_KUBECTL"] = UnsetVar, !["TELEPORT_PROXY"] = UnsetVar]

----------------------------------------------------------------------------
(* The kubectl launcher's one-shot mode. *)

\* the launcher is left alone: no option, or a failure
launcherResult(exit, stdout, stderr, fs, e, args) ==
    [exit |-> exit, stdout |-> stdout, stderr |-> stderr, fs |-> fs,
     kubeconfig |-> e["KUBECONFIG"], executable |-> "", args |-> args]

\* the end of maybeCreateLocalConfigFile: KUBECONFIG, the executable and
\* the arguments without the option
localConfigFileCreated(e, args, created) ==
    IF ~created.ok
        THEN launcherResult(1, created.stdout, created.stderr, created.fs, e, args)
    ELSE [exit |-> 0, stdout |-> <<>>, stderr |-> <<>>, fs |-> created.fs,
          kubeconfig |-> SetVar(created.NewKubeconfigEnvVar),
          executable |-> created.KubectlExecutable,
          args |-> SubSeq(args, 3, Len(args))]

\* maybeCreateLocalConfigFile as it would be if it asked for the session's
\* file instead of the nickname's
maybeCreateLocalConfigFileForSession(fs, e, kc, args, fault) ==
    IF Len(args) < 2 THEN launcherResult(0, <<>>, <<>>, fs, e, args)
    ELSE IF args[1] \notin {"--kconfig", "-k"}
        THEN launcherResult(0, <<>>, <<>>, fs, e, args)
    ELSE IF HasPrefix(args[2], "-")
        THEN launcherResult(1, <<>>,
                            <<"The kconfig nickname is missing after the \""
                              \o args[1] \o "\" option.">>,
                            fs, e, args)
    ELSE localConfigFileCreated(
             e, args,
             CreateLocalKubectlConfigFile(fs, Getenv(e, "KUBECONFIG"), kc, args[2],
                                          NoOptions, TRUE, fault,
                                          IF GetExistingSessionLocalFilename(
                                                 Getenv(e, "KUBECONFIG")) # ""
                                              THEN ""
                                              ELSE CHOOSE t \in SessionFiles : TRUE))

\* maybeCreateLocalConfigFile: [exit, stderr, fs, kubeconfig, executable, args]
maybeCreateLocalConfigFile(fs, e, kc, args, fault) ==
    IF Len(args) < 2 THEN launcherResult(0, <<>>, <<>>, fs, e, args)
    ELSE IF args[1] \notin {"--kconfig", "-k"}
        THEN launcherResult(0, <<>>, <<>>, fs, e, args)
    ELSE IF HasPrefix(args[2], "-")
        THEN launcherResult(1, <<>>,
                            <<"The kconfig nickname is missing after the \""
                              \o args[1] \o "\" option.">>,
                            fs, e, args)
    ELSE localConfigFileCreated(
             e, args,
             CreateLocalKubectlConfigFile(fs, Getenv(e, "KUBECONFIG"), kc, args[2],
                                          NoOptions, FALSE, fault, ""))

\* filepath.Clean on the components of a path: empty and "." components
\* are dropped, ".." removes the component before it
RECURSIVE CleanComponents(_, _, _)
CleanComponents(comps, stack, rooted) ==
    IF comps = <<>> THEN stack
    ELSE CleanComponents(
             Tail(comps),
             IF Head(comps) \in {"", "."} THEN stack
             ELSE IF Head(comps) # ".." THEN Append(stack, Head(comps))
             ELSE IF stack # <<>> /\ stack[Len(stack)] # ".."
                 THEN SubSeq(stack, 1, Len(stack) - 1)
             ELSE IF rooted THEN stack
             ELSE Append(stack, ".."),
             rooted)

\* filepath.Clean; filepath.Join(dir, name) is Clean(dir/name)
Clean(path) ==
    IF HasPrefix(path, "/")
        THEN "/" \o Join(CleanComponents(Split(path, "/"), <<>>, TRUE), "/")
    ELSE IF CleanComponents(Split(path, "/"), <<>>, FALSE) = <<>> THEN "."
    ELSE Join(CleanComponents(Split(path, "/"), <<>>, FALSE), "/")

\* filepath.Abs in the working directory cwd
Abs(cwd, path) ==
    IF HasPrefix(path, "/") THEN Clean(path) ELSE Clean(cwd \o "/" \o path)

\* os.Stat, which follows symbolic links: "exec" is an executable file,
\* "launcher" the launcher's own file, "link" a symbolic link to it, "file"
\* a file without execute permission, "dir" a directory
Stat(h, file) ==
    IF Abs(h.cwd, file) \in DOMAIN h.mode THEN h.mode[Abs(h.cwd, file)] ELSE "none"

\* isExecutable
isExecutable(h, file) == Stat(h, file) \in {"exec", "launcher", "link"}

\* isSameFile
isSameFile(h, path, skip) == Abs(h.cwd, path) = skip

\* findExecutable: the loop over the directories of PATH
RECURSIVE FindInPath(_, _, _, _)
FindInPath(h, dirs, name, skip) ==
    IF dirs = <<>>
        THEN [err |-> "Executable not found or is not executable: " \o name, path |-> ""]
    ELSE IF isSameFile(h, Clean((IF Head(dirs) = "" THEN "." ELSE Head(dirs))
                                \o "/" \o name), skip)
        THEN FindInPath(h, Tail(dirs), name, skip)
    ELSE IF isExecutable(h, Clean((IF Head(dirs) = "" THEN "." ELSE Head(dirs))
                                 \o "/" \o name))
        THEN [err |-> "",
              path |-> Clean((IF Head(dirs) = "" THEN "." ELSE Head(dirs)) \o "/" \o name)]
    ELSE FindInPath(h, Tail(dirs), name, skip)

\* findExecutable: [err, path]
findExecutable(h, name, skip) ==
    IF ~Contains(name, "/") THEN FindInPath(h, SplitList(h.PATH), name, skip)
    ELSE IF ~isExecutable(h, name)
        THEN [err |-> "Executable not found (or is not executable): " \o name, path |-> ""]
    ELSE IF isSameFile(h, name, skip)
        THEN [err |-> "Specified path name is this executable: " \o skip, path |-> ""]
    ELSE [err |-> "", path |-> name]

\* main: the name of the executable to look up
kubectlExecutable(e, proc) ==
    IF proc.executable # "" THEN proc.executable
    ELSE IF Getenv(e, "_KCONFIG_KUBECTL") # "" THEN Getenv(e, "_KCONFIG_KUBECTL")
    ELSE "kubectl"

\* main after the lookup: the error, or the exec of what was found
launcherExec(proc, name, found) ==
    [exit |-> IF found.err # "" THEN 1 ELSE 0,
     stdout |-> proc.stdout,
     stderr |-> proc.stderr \o <<"Looking up executable: " \o name>>
                \o (IF found.err # "" THEN <<found.err>>
                    ELSE <<"Found executable at: " \o found.path>>
                         \o (IF Getenv([KUBECONFIG |-> proc.kubeconfig], "KUBECONFIG") # ""
                                 THEN <<"KUBECONFIG env var is: " \o proc.kubeconfig.val>>
                                 ELSE <<>>)),
     fs |-> proc.fs]

----------------------------------------------------------------------------
(* The configurations and command lines the model draws from. *)

\* nicknames of kconfig.yaml: a context, a context with a namespace, an
\* executable with another kubectl config file and a user, an executable
\* alone, a context that does not exist, a kubectl config file that does not
\* exist, a definition that asks for the parser's help
StdNicknames ==
    ("dev" :> "--context dev")
    @@ ("app" :> "--context dev -n app1")
    @@ ("alt" :> ("kubectl-1.20 --kubeconfig " \o TestingConfig \o " --user admin"))
    @@ ("plain" :> "oc")
    @@ ("ghost" :> "--context nosuch")
    @@ ("lost" :> ("--kubeconfig " \o MissingConfig))
    @@ ("helpme" :> "--context dev --help")

StdKconfigs ==
    {[Preferences |-> [NoPreferences EXCEPT !.BaseKubeconfig = b],
      Nicknames |-> StdNicknames] : b \in {"", TestingConfig}}

\* arguments of the kset function
StdKsetArgs ==
    {<<n>> : n \in DOMAIN StdNicknames \cup {"nope", "-"}}
    \cup {<<>>, <<"dev", "-n", "ovns">>, <<"alt", "--context", "test2">>,
          <<"--user", "ovuser">>, <<"dev", "extra">>, <<"--help">>,
          <<"dev", "--bogus">>}

\* arguments of the kubectl launcher
StdKubectlArgs ==
    {<<"-k", n, "get">> : n \in {"app", "alt", "nope"}}
    \cup {<<"get", "pods">>, <<"-k", "-n", "get">>, <<"get", "-k", "app">>}

\* a fault is injected into one command line of each kind
FaultKubectl == {<<"-k", "app", "get">>} \X {"kconfig", "write1"}

AllPaths ==
    BaseFiles \cup SessionFiles \cup {NicknameFileName(n) : n \in DOMAIN StdNicknames}

\* the names os.CreateTemp could draw if it did not look for a file of the
\* same name
TempNamesInUse(fs, e) ==
    IF GetExistingSessionLocalFilename(Getenv(e, "KUBECONFIG")) # "" THEN {""}
    ELSE SessionFiles

\* the names os.CreateTemp can draw: unused ones, and none when the
\* session file exists already
TempNames(fs, e) ==
    IF GetExistingSessionLocalFilename(Getenv(e, "KUBECONFIG")) # "" THEN {""}
    ELSE {t \in SessionFiles : fs[t].kind = "absent"}

----------------------------------------------------------------------------
(* The state machine. *)

InitialFiles ==
    [p \in AllPaths |->
        IF p = RecommendedHomeFile THEN HomeConfigContent
        ELSE IF p = TestingConfig THEN TestingConfigContent
        ELSE AbsentFile]

InitialEnv(kubeconfig) ==
    [n \in EnvNames |->
        IF n = "PS1" THEN SetVar("$ ")
        ELSE IF n = "KUBECONFIG" THEN kubeconfig
        ELSE UnsetVar]

\* what is remembered of the command before the last one
Summary(l) == [cmd |-> l.cmd, args |-> l.args, exit |-> l.exit, fault |-> l.fault]

NoCommand ==
    [cmd |-> "", args |-> <<>>, fault |-> "none", ran |-> FALSE, exit |-> 0,
     stdout |-> <<>>, stderr |-> <<>>, execKubeconfig |-> UnsetVar,
     executable |-> "", target |-> "",
     prev |-> [cmd |-> "", args |-> <<>>, exit |-> 0, fault |-> "none"]]

\* the launcher first in the PATH, the executables of Kubernetes after it
StdHost ==
    [PATH |-> "/k:/b", cwd |-> HomeDir, me |-> "/k/kubectl",
     mode |-> ("/k/kubectl" :> "launcher") @@ ("/b/kubectl" :> "exec")
              @@ ("/b/kubectl-1.20" :> "exec")]

\* nothing is remembered of the shell's variables
NoHistory == [before |-> InitialEnv(UnsetVar), known |-> FALSE, ps1 |-> UnsetVar]

Init ==
    /\ files = InitialFiles
    /\ \E k \in {UnsetVar, SetVar(TestingConfig)} : env = InitialEnv(k)
    /\ kconfig \in StdKconfigs
    /\ last = NoCommand
    /\ steps = 0
    /\ hist = NoHistory
    /\ peer = InitialEnv(UnsetVar)
    /\ host = StdHost

\* the shell's state after a command whose process ended as proc
Ran(cmd, args, fault, ran, proc, newEnv, execKubeconfig, executable, target) ==
    /\ files' = proc.fs
    /\ env' = newEnv
    /\ last' = [cmd |-> cmd, args |-> args, fault |-> fault, ran |-> ran,
                exit |-> proc.exit, stdout |-> proc.stdout,
                stderr |-> proc.stderr, execKubeconfig |-> execKubeconfig,
                executable |-> executable, target |-> target,
                prev |-> Summary(last)]
    /\ steps' = steps + 1
    /\ UNCHANGED <<kconfig, host, peer>>

\* function kset: the process, then the evaluation of its output
ksetFunction(proc, args, fault) ==
    Ran("kset", args, fault, TRUE, proc, ksetShell(env, proc.stdout), UnsetVar, "", "")

\* the user runs "kset args"
Kset(args, fault, tmp) ==
    /\ steps < MaxSteps
    /\ ksetFunction(KconfigUtilKset(files, env, kconfig, args, fault, tmp), args, fault)
    /\ UNCHANGED hist

\* function koff: the prompt, the process when KUBECONFIG is not empty, the
\* evaluation of its output, the cleanup
koffFunction(before, ran, proc, args, fault) ==
    Ran("koff", args, fault, ran, proc, koffShellAfter(Eval(proc.stdout, before)),
        UnsetVar, "", "")

\* function koff called with args: the process runs when KUBECONFIG is
\* not empty
koffCalled(args, fault) ==
    koffFunction(koffShellBefore(env),
                 Getenv(koffShellBefore(env), "KUBECONFIG") # "",
                 IF Getenv(koffShellBefore(env), "KUBECONFIG") # ""
                     THEN KconfigUtilKoff(files, koffShellBefore(env), kconfig,
                                          args, fault)
                     ELSE Exited(0, <<>>, <<>>, files),
                 args, fault)

\* the user runs "koff args"
Koff(args, fault) ==
    /\ steps < MaxSteps
    /\ koffCalled(args, fault)
    /\ UNCHANGED hist

\* the launcher has looked up the executable: it execs what it found
kubectlFound(proc, args, fault, name, found) ==
    Ran("kubectl", args, fault, TRUE, launcherExec(proc, name, found), env,
        proc.kubeconfig, name, found.path)

\* the launcher: prepare the one-shot file, then look up the executable and
\* exec it
kubectlMain(proc, args, fault) ==
    IF proc.exit # 0
        THEN Ran("kubectl", args, fault, TRUE, proc, env, proc.kubeconfig, "", "")
        ELSE kubectlFound(proc, args, fault, kubectlExecutable(env, proc),
                          findExecutable(host, kubectlExecutable(env, proc), host.me))

\* the user runs "kubectl args" with the launcher first in the PATH
Kubectl(args, fault) ==
    /\ steps < MaxSteps
    /\ kubectlMain(maybeCreateLocalConfigFile(files, env, kconfig, args, fault),
                   args, fault)
    /\ UNCHANGED hist

Next ==
    \/ \E args \in StdKsetArgs, tmp \in TempNames(files, env) :
         Kset(args, "none", tmp)
    \/ \E args \in {<<"app">>},
            fault \in {"kconfig", "kubeconfig", "mkdir", "createtemp", "write1", "write2"},
            tmp \in TempNames(files, env) :
         Kset(args, fault, tmp)
    \/ \E args \in {<<>>, <<"extra">>, <<"--help">>} : Koff(args, "none")
    \/ \E fault \in {"kconfig", "remove"} : Koff(<<>>, fault)
    \/ \E args \in StdKubectlArgs : Kubectl(args, "none")
    \/ \E c \in FaultKubectl : Kubectl(c[1], c[2])

Spec == Init /\ [][Next]_vars

----------------------------------------------------------------------------
(* One kset over every combination of set and unset fields: the nickname   *)
(* "nick" is defined with or without an executable, a kubectl config file, *)
(* a context, a namespace and a user, kset is called with or without each  *)
(* override, and the preferences name no, one or two base files.           *)

WideNickname == "nick"

\* the options as words of a command line or of a nickname definition
OptionWords(o) ==
    (IF o.KubeConfig # "" THEN <<"--kubeconfig", o.KubeConfig>> ELSE <<>>)
    \o (IF o.Context # "" THEN <<"--context", o.Context>> ELSE <<>>)
    \o (IF o.Namespace # "" THEN <<"-n", o.Namespace>> ELSE <<>>)
    \o (IF o.User # "" THEN <<"--user", o.User>> ELSE <<>>)

WideDefinitions ==
    {d \in [exe : {"", "oc"}, KubeConfig : {"", TestingConfig},
            Context : {"", "dev", "test2"}, Namespace : {"", "nns"},
            User : {"", "nuser"}] :
        d.exe # "" \/ OptionWords(d) # <<>>}

\* the line of kconfig.yaml
DefinitionOf(d) ==
    Join((IF d.exe # "" THEN <<d.exe>> ELSE <<>>) \o OptionWords(d), " ")

WideOverrides ==
    [KubeConfig : {"", RecommendedHomeFile}, Context : {"", "prod", "test"},
     Namespace : {"", "ovns"}, User : {"", "ovuser"}]

WideKsetArgs(o) == <<WideNickname>> \o OptionWords(o)

WideKconfigs ==
    {[Preferences |-> [NoPreferences EXCEPT !.BaseKubeconfig = b],
      Nicknames |-> (WideNickname :> DefinitionOf(d))] :
        b \in {"", TestingConfig, TestingConfig \o ":" \o RecommendedHomeFile}, d \in WideDefinitions}

\* the shell in which "kset nick -n oldns" has run while kconfig.yaml
\* defined nick as "oc": a session file with a context of its own exists
PriorKconfig == [Preferences |-> NoPreferences, Nicknames |-> (WideNickname :> "oc")]
PriorProcess ==
    KconfigUtilKset(InitialFiles, InitialEnv(UnsetVar), PriorKconfig,
                    <<WideNickname, "-n", "oldns">>, "none", SessionFileName(1))
PriorFiles == PriorProcess.fs
PriorEnv == ksetShell(InitialEnv(UnsetVar), PriorProcess.stdout)

InitResolve ==
    /\ \/ files = InitialFiles /\ env = InitialEnv(UnsetVar)
       \/ files = PriorFiles /\ env = PriorEnv
    /\ kconfig \in WideKconfigs
    /\ last = NoCommand
    /\ steps = 0
    /\ hist = NoHistory
    /\ peer = InitialEnv(UnsetVar)
    /\ host = StdHost

NextResolve ==
    \E o \in WideOverrides, tmp \in TempNames(files, env) :
        steps = 0 /\ Kset(WideKsetArgs(o), "none", tmp)

SpecResolve == InitResolve /\ [][NextResolve]_vars

----------------------------------------------------------------------------
(* The shell functions alone, called one after the other in every shell:   *)
(* PS1 is set, empty or unset (a shell that is not interactive), KUBECONFIG *)
(* is unset or names a file of the user's, _KCONFIG_KUBECTL is unset or set *)
(* by the user.  hist remembers the variables before the last command and   *)
(* PS1 before the first kset, since the last koff, that wrote a prompt.     *)

\* the process wrote a value for _KP, so function kset changes the prompt
EmitsPrompt(stdout) ==
    \E i \in 1..Len(stdout) :
        stdout[i].cmd = "assign" /\ stdout[i].name = "_KP" /\ stdout[i].value # ""

InitShell ==
    /\ files = InitialFiles
    /\ \E k \in {UnsetVar, SetVar(TestingConfig)},
          p \in {SetVar("$ "), SetVar(""), UnsetVar},
          x \in {UnsetVar, SetVar("kubectl-1.19")} :
         env = [InitialEnv(k) EXCEPT !["PS1"] = p, !["_KCONFIG_KUBECTL"] = x]
    /\ \E b \in {"", TestingConfig}, c \in {"nil", "false"} :
         kconfig = [Preferences |-> [NoPreferences EXCEPT !.BaseKubeconfig = b,
                                                          !.ChangePrompt = c],
                    Nicknames |-> StdNicknames]
    /\ last = NoCommand
    /\ steps = 0
    /\ hist = [before |-> env, known |-> FALSE, ps1 |-> UnsetVar]
    /\ peer = InitialEnv(UnsetVar)
    /\ host = StdHost

ShellKsetRan(proc, args) ==
    /\ ksetFunction(proc, args, "none")
    /\ hist' = [before |-> env,
                known |-> hist.known \/ EmitsPrompt(proc.stdout),
                ps1 |-> IF ~hist.known /\ EmitsPrompt(proc.stdout)
                            THEN env["PS1"] ELSE hist.ps1]

ShellKset(args, tmp) ==
    /\ steps < MaxShellSteps
    /\ ShellKsetRan(KconfigUtilKset(files, env, kconfig, args, "none", tmp), args)

ShellKoff ==
    /\ steps < MaxShellSteps
    /\ koffCalled(<<>>, "none")
    /\ hist' = [before |-> env, known |-> FALSE, ps1 |-> UnsetVar]

NextShell ==
    \/ \E args \in {<<"dev">>, <<"app">>, <<"dev", "-n", "ovns">>, <<"nope">>},
            tmp \in TempNames(files, env) : ShellKset(args, tmp)
    \/ ShellKoff

SpecShell == InitShell /\ [][NextShell]_vars

----------------------------------------------------------------------------
(* One kset under every setting of the preferences that shape the prompt   *)
(* and name the default executable: the nickname "nick" names a context     *)
(* with or without a namespace of its own, with or without an executable, a *)
(* namespace and a user, and kset is called with or without a namespace and *)
(* a user.                                                                  *)

PromptDefinitions ==
    [exe : {"", "oc"}, KubeConfig : {""}, Context : {"dev", "devnonamespace"},
     Namespace : {"", "nns"}, User : {"", "nuser"}]

PromptOverrides ==
    [KubeConfig : {""}, Context : {""}, Namespace : {"", "ovns"},
     User : {"", "ovuser", "admins=eu"}]

InitPrompt ==
    /\ files = InitialFiles
    /\ env = InitialEnv(UnsetVar)
    /\ \E k \in {"", "kubectl-default"}, c \in {"nil", "true", "false"},
          o \in {"nil", "true", "false"}, a \in BOOLEAN, d \in PromptDefinitions :
         kconfig = [Preferences |-> [DefaultKubectl |-> k, ChangePrompt |-> c,
                                     ShowOverridesInPrompt |-> o,
                                     AlwaysShowNamespaceInPrompt |-> a,
                                     BaseKubeconfig |-> ""],
                    Nicknames |-> (WideNickname :> DefinitionOf(d))]
    /\ last = NoCommand
    /\ steps = 0
    /\ hist = NoHistory
    /\ peer = InitialEnv(UnsetVar)
    /\ host = StdHost

NextPrompt ==
    \E o \in PromptOverrides, tmp \in TempNames(files, env) :
        steps = 0 /\ Kset(WideKsetArgs(o), "none", tmp)

SpecPrompt == InitPrompt /\ [][NextPrompt]_vars

----------------------------------------------------------------------------
(* One run of the launcher wherever it can be installed: the launcher is    *)
(* /k/kubectl; /b holds the executables of Kubernetes, where kubectl is     *)
(* executable, not executable or missing; /l/kubectl is missing, a          *)
(* directory, or a symbolic link to the launcher; PATH names these          *)
(* directories in several orders, with an empty element and with a trailing *)
(* slash.  os.Executable answers with the launcher's file or, when the      *)
(* launcher was started through the link, possibly with the link.           *)

InitLauncher ==
    /\ files = InitialFiles
    /\ \E x \in {UnsetVar, SetVar("kubectl-1.20"), SetVar("/k/kubectl"), SetVar("./kubectl")} :
         env = [InitialEnv(UnsetVar) EXCEPT !["_KCONFIG_KUBECTL"] = x]
    /\ \E k \in {"", "kubectl-default"} :
         kconfig = [Preferences |-> [NoPreferences EXCEPT !.DefaultKubectl = k],
                    Nicknames |-> StdNicknames]
    /\ last = NoCommand
    /\ steps = 0
    /\ hist = NoHistory
    /\ peer = InitialEnv(UnsetVar)
    /\ host \in [PATH : {"/k:/b", "/l:/k:/b", "/l:/b", "/b", ":/b", "/k/:/b", ""},
                  cwd : {"/k", HomeDir},
                  me : {"/k/kubectl", "/l/kubectl"},
                  mode : {("/k/kubectl" :> "launcher") @@ ("/b/kubectl" :> b)
                          @@ ("/l/kubectl" :> l) @@ ("/b/kubectl-1.20" :> "exec")
                          @@ ("/b/kubectl-default" :> "exec") :
                              b \in {"exec", "file", "none"},
                              l \in {"none", "link", "dir"}}]
    /\ host.me = "/l/kubectl" => host.mode["/l/kubectl"] = "link"

NextLauncher == \E args \in StdKubectlArgs : steps = 0 /\ Kubectl(args, "none")

SpecLauncher == InitLauncher /\ [][NextLauncher]_vars

----------------------------------------------------------------------------
(* One-shot commands, more of them than there are nicknames: kconfig.yaml   *)
(* defines two nicknames; the launcher is run with each of them, with both  *)
(* spellings of the option, with nicknames that have no definition, and     *)
(* with failures while kconfig.yaml is read and while the file is written.  *)

MaxOneShots == 4

InitOneShot ==
    /\ files = InitialFiles
    /\ \E k \in {UnsetVar, SetVar(TestingConfig)} : env = InitialEnv(k)
    /\ kconfig = [Preferences |-> NoPreferences,
                  Nicknames |-> ("dev" :> "--context dev")
                                @@ ("app" :> "--context stage -n app1")]
    /\ last = NoCommand
    /\ steps = 0
    /\ hist = NoHistory
    /\ peer = InitialEnv(UnsetVar)
    /\ host = StdHost

\* the user runs "kubectl -k nickname ..."
NextOneShot ==
    \E c \in ({<<"-k", n, "get">> : n \in {"dev", "app", "alt", "nope"}}
                   \cup {<<"--kconfig", "app", "get", "pods">>}) \X {"none"}
              \cup FaultKubectl :
        /\ steps < MaxOneShots
        /\ kubectlMain(maybeCreateLocalConfigFile(files, env, kconfig, c[1], c[2]),
                       c[1], c[2])
        /\ UNCHANGED hist

SpecOneShot == InitOneShot /\ [][NextOneShot]_vars

----------------------------------------------------------------------------
(* A session that switches between environments: kconfig.yaml defines a     *)
(* nickname alone, one with a namespace and one with a Teleport proxy;      *)
(* base_kubeconfig is set or not; the user runs kset with a nickname, with  *)
(* overrides, with "-", with "-" and overrides, with overrides alone, and   *)
(* koff, up to MaxSwitchSteps commands.                                     *)

MaxSwitchSteps == 4

InitSwitch ==
    /\ files = InitialFiles
    /\ env = InitialEnv(UnsetVar)
    /\ \E b \in {"", TestingConfig} :
         kconfig = [Preferences |-> [NoPreferences EXCEPT !.BaseKubeconfig = b],
                    Nicknames |-> ("dev" :> "--context dev")
                                  @@ ("app" :> "--context dev -n app1")
                                  @@ ("tp" :> "--context dev --teleport-proxy tport-proxy1")]
    /\ last = NoCommand
    /\ steps = 0
    /\ hist = NoHistory
    /\ peer = InitialEnv(UnsetVar)
    /\ host = StdHost

NextSwitch ==
    \/ \E args \in {<<"dev">>, <<"app", "-n", "ovns">>, <<"tp">>, <<"-">>,
                     <<"-", "--user", "ovuser">>, <<"-n", "ns2">>, <<>>,
                     <<"dev", "extra">>},
            tmp \in TempNames(files, env) :
         /\ steps < MaxSwitchSteps
         /\ ksetFunction(KconfigUtilKset(files, env, kconfig, args, "none", tmp),
                         args, "none")
         /\ UNCHANGED hist
    \/ /\ steps < MaxSwitchSteps
       /\ koffCalled(<<>>, "none")
       /\ UNCHANGED hist

SpecSwitch == InitSwitch /\ [][NextSwitch]_vars

----------------------------------------------------------------------------
(* The sources of nicknames: kconfig.yaml is missing, or it defines dev or  *)
(* nothing, with read_kalias_config set or not; kalias.txt is missing or    *)
(* holds up to MaxKaliasLines lines: blank, comments, a line without "=",   *)
(* an empty definition, definitions with blanks around them, a definition   *)
(* of the nickname kconfig.yaml defines, two definitions of one nickname.   *)
(* The user runs one kset.                                                  *)

MaxKaliasLines == 2

\* the sequences of at most n lines
RECURSIVE LinesUpTo(_)
LinesUpTo(n) ==
    IF n = 0 THEN {<<>>}
    ELSE LinesUpTo(n - 1)
         \cup {Append(ls, l) : ls \in {x \in LinesUpTo(n - 1) : Len(x) = n - 1},
                                l \in {"", "# nicknames", "#x=--context prod", "noequals",
                                       "ka=", "ka=--context prod", "ka=--context stage",
                                       "dev=--context prod", "  kb=--context stage  "}}

InitKalias ==
    /\ files = InitialFiles
    /\ env = InitialEnv(UnsetVar)
    /\ \E x \in BOOLEAN, r \in BOOLEAN, ns \in {<<>>, "dev" :> "--context dev"},
          k \in BOOLEAN, ls \in LinesUpTo(MaxKaliasLines) :
         /\ ~x => (~r /\ ns = <<>>)
         /\ ~k => ls = <<>>
         /\ host = StdHost @@ [yaml |-> [exists |-> x, ReadKaliasConfig |-> r,
                                         Nicknames |-> ns],
                               kalias |-> [exists |-> k, lines |-> ls]]
    /\ kconfig = readKconfig(host.yaml, host.kalias)
    /\ last = NoCommand
    /\ steps = 0
    /\ hist = NoHistory
    /\ peer = InitialEnv(UnsetVar)

NextKalias ==
    \E n \in {"dev", "ka", "kb", "#x", "noequals"}, tmp \in TempNames(files, env) :
        steps = 0 /\ Kset(<<n>>, "none", tmp)

SpecKalias == InitKalias /\ [][NextKalias]_vars

----------------------------------------------------------------------------
(* Two shells of one user on one machine: each starts with KUBECONFIG unset *)
(* or naming a kubectl config file; the user runs kset and koff in the       *)
(* shell at hand, and goes from one shell to the other at any time.  env is *)
(* the shell at hand and peer the other one.                                *)

MaxSessionSteps == 4

InitSessions ==
    /\ files = InitialFiles
    /\ \E k \in {UnsetVar, SetVar(TestingConfig)} : env = InitialEnv(k)
    /\ \E k \in {UnsetVar, SetVar(TestingConfig)} : peer = InitialEnv(k)
    /\ \E b \in {"", TestingConfig} :
         kconfig = [Preferences |-> [NoPreferences EXCEPT !.BaseKubeconfig = b],
                    Nicknames |-> StdNicknames]
    /\ last = NoCommand
    /\ steps = 0
    /\ hist = NoHistory
    /\ host = StdHost

NextSessions ==
    \/ \E args \in {<<"dev">>, <<"app", "-n", "ovns">>, <<"nope">>},
            tmp \in TempNames(files, env) :
         /\ steps < MaxSessionSteps
         /\ ksetFunction(KconfigUtilKset(files, env, kconfig, args, "none", tmp),
                         args, "none")
         /\ UNCHANGED hist
    \/ /\ steps < MaxSessionSteps
       /\ koffCalled(<<>>, "none")
       /\ UNCHANGED hist
    \/ /\ env' = peer
       /\ peer' = env
       /\ UNCHANGED <<files, kconfig, last, steps, hist, host>>

SpecSessions == InitSessions /\ [][NextSessions]_vars

----------------------------------------------------------------------------
(* The description of a kset environment, as a function of the nickname and *)
(* the override options: last.args holds a command line of kset, with the   *)
(* options in the order of createKsetArgs; the step describes it as         *)
(* ksetProcessor does, and leaves the description in _KCONFIG_KSET.         *)

InitDescribe ==
    /\ files = InitialFiles
    /\ env = InitialEnv(UnsetVar)
    /\ kconfig = [Preferences |-> NoPreferences, Nicknames |-> StdNicknames]
    /\ \E nickname \in {"dev", "my dev"},
          o \in [DOMAIN NoOptions -> {"", "a", "b c"}] :
         last = [NoCommand EXCEPT
                   !.args = <<nickname>> \o OptionWords(o)
                            \o (IF o.TeleportProxy # ""
                                    THEN <<"--teleport-proxy", o.TeleportProxy>>
                                    ELSE <<>>)]
    /\ steps = 0
    /\ hist = NoHistory
    /\ peer = InitialEnv(UnsetVar)
    /\ host = StdHost

NextDescribe ==
    /\ steps = 0
    /\ steps' = 1
    /\ last' = [last EXCEPT !.cmd = "kset", !.ran = TRUE]
    /\ env' = [env EXCEPT
                 !["_KCONFIG_KSET"] =
                     SetVar(createKsetArgs(ParseArgs(last.args).positional[1],
                                           ParseArgs(last.args).opts))]
    /\ UNCHANGED <<files, kconfig, hist, host, peer>>

SpecDescribe == InitDescribe /\ [][NextDescribe]_vars

----------------------------------------------------------------------------
(* Properties. *)

\* a file under one of kconfig's temporary directories
IsKconfigTempFile(p) ==
    HasPrefix(p, kconfigTmpSessionDir \o "/") \/ HasPrefix(p, kconfigTmpNicknameDir \o "/")

\* C1: no kset, koff or "kubectl -k nickname" modifies a base kubectl
\* configuration file: every step leaves the content of every file of the
\* base search paths as it was, and the only files whose content changes
\* (written, created or removed) are files under the session and the
\* nickname temporary directories.
C1_BaseFilesNeverModified ==
    [][/\ \A p \in BaseFiles : files'[p] = files[p]
       /\ \A p \in DOMAIN files : files'[p] # files[p] => IsKconfigTempFile(p)]_vars

\* C1: a kset has written a modified copy of a context of a base file into
\* a session file
C1_Witness ==
    /\ last.cmd = "kset" /\ last.exit = 0
    /\ \E p \in SessionFiles :
         /\ files[p].kind = "yaml"
         /\ \E c \in files[p].ctxs : c.name = kconfigContextName

\* the first entry of the shell's KUBECONFIG ("" when it is empty or unset)
FirstOfKubeconfig(e) ==
    LET v == Getenv(e, "KUBECONFIG") IN
    IF v = "" THEN "" ELSE Split(v, ":")[1]

\* the step is a kset that repeats the arguments of the kset before it,
\* both without a fault of the environment and the first one successful
RepeatedKset ==
    /\ last.cmd = "kset" /\ last.exit = 0 /\ last.fault = "none"
    /\ last'.cmd = "kset" /\ last'.fault = "none"
    /\ last'.args = last.args
    /\ last.args # <<>> /\ last.args[1] # "-"

\* C2: kset is idempotent: when a successful kset is run again with the
\* same nickname and overrides, the second run succeeds, KUBECONFIG names the
\* same session file as after the first run, and that file's content is
\* what it was after the first run.
C2_KsetIdempotent ==
    [][RepeatedKset =>
         /\ last'.exit = 0
         /\ FirstOfKubeconfig(env') = FirstOfKubeconfig(env)
         /\ FirstOfKubeconfig(env) \in SessionFiles
         /\ files'[FirstOfKubeconfig(env)] = files[FirstOfKubeconfig(env)]
         /\ files[FirstOfKubeconfig(env)].kind = "yaml"
         /\ env'["KUBECONFIG"] = env["KUBECONFIG"]]_vars

\* C2: the same kset with a namespace override has succeeded twice in a row
C2_Witness ==
    /\ last.cmd = "kset" /\ last.exit = 0 /\ last.fault = "none"
    /\ last.prev.cmd = "kset" /\ last.prev.exit = 0 /\ last.prev.fault = "none"
    /\ last.args = last.prev.args
    /\ last.args = <<"dev", "-n", "ovns">>
    /\ FirstOfKubeconfig(env) \in SessionFiles
    /\ \E c \in files[FirstOfKubeconfig(env)].ctxs : c.namespace = "ovns"

\* the session files a step creates
CreatedSessionFiles ==
    {p \in SessionFiles : files[p].kind = "absent" /\ files'[p].kind # "absent"}

\* the session files that exist
ExistingSessionFiles == {p \in SessionFiles : files[p].kind # "absent"}

\* C3: one session file per shell session.  A kset that runs while
\* KUBECONFIG names no session file creates, when it succeeds, exactly one
\* file in the session directory, a name that was not in use, and puts it
\* first in KUBECONFIG; when it fails it leaves no file behind.  A kset that
\* runs while KUBECONFIG names a session file creates no other file,
\* touches no other session file, and when it succeeds keeps that file
\* first in KUBECONFIG.
C3_OneSessionFile ==
    [][last'.cmd = "kset" =>
         IF FirstOfKubeconfig(env) \in SessionFiles
             THEN /\ CreatedSessionFiles \subseteq {FirstOfKubeconfig(env)}
                  /\ \A p \in SessionFiles \ {FirstOfKubeconfig(env)} :
                       files'[p] = files[p]
                  /\ FirstOfKubeconfig(env') = FirstOfKubeconfig(env)
             ELSE /\ \A p \in SessionFiles \ CreatedSessionFiles : files'[p] = files[p]
                  /\ last'.exit = 0 =>
                       /\ Cardinality(CreatedSessionFiles) = 1
                       /\ FirstOfKubeconfig(env') \in CreatedSessionFiles
                  /\ last'.exit # 0 =>
                       /\ CreatedSessionFiles = {}
                       /\ FirstOfKubeconfig(env') = FirstOfKubeconfig(env)]_vars

\* C3: two successful kset commands with different arguments and the one
\* session file they share
C3_Witness ==
    /\ last.cmd = "kset" /\ last.exit = 0
    /\ last.prev.cmd = "kset" /\ last.prev.exit = 0
    /\ last.args # last.prev.args
    /\ ExistingSessionFiles = {FirstOfKubeconfig(env)}

\* C4 as the specification states it: whenever koff runs, the session file
\* that KUBECONFIG named no longer exists afterwards.
C4_KoffAlwaysRemoves ==
    [][(last'.cmd = "koff" /\ FirstOfKubeconfig(env) \in SessionFiles) =>
         files'[FirstOfKubeconfig(env)].kind = "absent"]_vars

\* C4: a koff without arguments removes the session file that KUBECONFIG
\* names, unless the removal itself fails, in which case the file stays and
\* the error is reported; a koff with arguments or with a help flag fails
\* before anything is removed.
C4_KoffRemoves ==
    [][(last'.cmd = "koff" /\ FirstOfKubeconfig(env) \in SessionFiles) =>
         /\ (last'.args = <<>> /\ last'.fault # "remove") =>
                files'[FirstOfKubeconfig(env)].kind = "absent"
         /\ (last'.args = <<>> /\ last'.fault = "remove"
             /\ files[FirstOfKubeconfig(env)].kind # "absent") =>
                /\ files' = files
                /\ last'.stderr # <<>>
         /\ last'.args # <<>> =>
                /\ last'.exit = 1
                /\ files' = files]_vars

\* C4: a koff after a successful kset has removed the session file
C4_Witness ==
    /\ last.cmd = "koff" /\ last.args = <<>> /\ last.ran /\ last.exit = 0
    /\ last.prev.cmd = "kset" /\ last.prev.exit = 0
    /\ ExistingSessionFiles = {}
    /\ ~env["KUBECONFIG"].set

\* the kset of this step failed with this message, wrote no statement and
\* left every file and KUBECONFIG as they were
KsetFailedWith(message) ==
    /\ last'.exit = 1
    /\ last'.stderr = <<message>>
    /\ last'.stdout = <<>>
    /\ files' = files
    /\ env'["KUBECONFIG"] = env["KUBECONFIG"]

\* C9: resolution errors are fatal and change nothing.  A kset of a
\* nickname that kconfig.yaml does not define, of a nickname whose search
\* path yields no current context, or of a nickname whose context the base
\* configuration does not define, exits with status 1 and the error message,
\* creates no session file and leaves every existing file as it was.
C9_ResolutionErrorsFatal ==
    [][(/\ last'.cmd = "kset" /\ last'.fault = "none"
        /\ Len(last'.args) = 1 /\ SubSeq(last'.args[1], 1, 1) # "-") =>
         /\ last'.args[1] \notin DOMAIN kconfig.Nicknames =>
                KsetFailedWith("Nickname \"" \o last'.args[1] \o "\" is not defined.")
         /\ (/\ last'.args[1] \in DOMAIN kconfig.Nicknames
             /\ kconfig.Nicknames[last'.args[1]] = "--kubeconfig " \o MissingConfig
             /\ files[MissingConfig].kind = "absent") =>
                KsetFailedWith("There is no current context in search path: "
                               \o MissingConfig)
         /\ (/\ last'.args[1] \in DOMAIN kconfig.Nicknames
             /\ kconfig.Nicknames[last'.args[1]] = "--context nosuch"
             /\ \A p \in DOMAIN files : \A c \in files[p].ctxs : c.name # "nosuch") =>
                KsetFailedWith("Context \"nosuch\" doesn't exist.")]_vars

\* C9: a kset of a nickname whose context does not exist has failed in a
\* session whose file a kset before it had written
C9_Witness ==
    /\ last.cmd = "kset" /\ last.args = <<"ghost">> /\ last.exit = 1
    /\ last.prev.cmd = "kset" /\ last.prev.exit = 0
    /\ FirstOfKubeconfig(env) \in SessionFiles
    /\ files[FirstOfKubeconfig(env)].kind = "yaml"

\* C10 as the specification states it: a kconfig-util kset or koff that
\* meets a failure ends with a failure status, a message on standard error
\* and nothing on standard output.
C10_FailuresFatalAndSilent ==
    (last.cmd \in {"kset", "koff"} /\ last.ran) =>
        /\ last.exit # 0 => (last.stdout = <<>> /\ last.stderr # <<>>)
        /\ last.stderr # <<>> => last.exit # 0

----------------------------------------------------------------------------
(* Properties of the resolution, for the one kset of SpecResolve. *)

\* the fields of the nickname definition and of the command line, found
\* again from the line of kconfig.yaml and from the arguments
GivenDefinition ==
    CHOOSE d \in WideDefinitions : DefinitionOf(d) = kconfig.Nicknames[WideNickname]
GivenOverrides == CHOOSE o \in WideOverrides : WideKsetArgs(o) = last.args

\* the search path the specification chooses
ChosenSearchPath ==
    IF GivenOverrides.KubeConfig # "" THEN GivenOverrides.KubeConfig
    ELSE IF GivenDefinition.KubeConfig # "" THEN GivenDefinition.KubeConfig
    ELSE IF kconfig.Preferences.BaseKubeconfig # ""
        THEN kconfig.Preferences.BaseKubeconfig
    ELSE HomeDir \o "/.kube/config"

\* the current context of the base configuration: the first one a file of
\* the path sets
RECURSIVE FirstCurrentContext(_)
FirstCurrentContext(paths) ==
    IF paths = <<>> THEN ""
    ELSE IF files[Head(paths)].cc # "" THEN files[Head(paths)].cc
    ELSE FirstCurrentContext(Tail(paths))

\* the contexts of the base configuration with a name: those of the first
\* file of the path that defines it
RECURSIVE BaseContextsNamed(_, _)
BaseContextsNamed(paths, name) ==
    IF paths = <<>> THEN {}
    ELSE IF \E c \in files[Head(paths)].ctxs : c.name = name
        THEN {c \in files[Head(paths)].ctxs : c.name = name}
    ELSE BaseContextsNamed(Tail(paths), name)

\* the context the specification resolves
ResolvedContext ==
    IF GivenOverrides.Context # "" THEN GivenOverrides.Context
    ELSE IF GivenDefinition.Context # "" THEN GivenDefinition.Context
    ELSE FirstCurrentContext(Split(ChosenSearchPath, ":"))

ResolvedBaseContexts == BaseContextsNamed(Split(ChosenSearchPath, ":"), ResolvedContext)

\* a namespace or a user is set by the nickname or by an override
NamespaceOrUserGiven ==
    \/ GivenDefinition.Namespace # "" \/ GivenDefinition.User # ""
    \/ GivenOverrides.Namespace # "" \/ GivenOverrides.User # ""

\* the session file that KUBECONFIG names after the kset
EmittedFile == files[FirstOfKubeconfig(env)]

\* C5: the context kset resolves is the --context of the command line if
\* given, otherwise the --context of the nickname definition if given,
\* otherwise the current context of the base configuration read from the
\* chosen search path: when the base configuration has no such context kset
\* fails naming that context, and otherwise the session file selects it,
\* directly or as the context its own context is copied from.
C5_ContextPrecedence ==
    last.cmd = "kset" =>
        IF ResolvedBaseContexts = {}
            THEN /\ last.exit = 1
                 /\ last.stderr = <<"Context \"" \o ResolvedContext \o "\" doesn't exist.">>
            ELSE /\ last.exit = 0
                 /\ \/ EmittedFile.cc = ResolvedContext
                    \/ /\ EmittedFile.cc = kconfigContextName
                       /\ \A c \in EmittedFile.ctxs : \E b \in ResolvedBaseContexts :
                            c.cluster = b.cluster

\* C5: the nickname names a context, the command line another one, and the
\* session file points at the one of the command line
C5_Witness ==
    /\ last.cmd = "kset" /\ last.exit = 0
    /\ GivenDefinition.Context = "dev" /\ GivenOverrides.Context = "prod"
    /\ EmittedFile.cc = "prod"

\* C6: the KUBECONFIG that kset produces is the session file followed by
\* the chosen search path and nothing else, the search path being the
\* --kubeconfig override if given, else the nickname's --kubeconfig if
\* given, else the preference base_kubeconfig if set, else
\* $HOME/.kube/config.
C6_KubeconfigValue ==
    (last.cmd = "kset" /\ last.exit = 0) =>
        /\ FirstOfKubeconfig(env) \in SessionFiles
        /\ EmittedFile.kind = "yaml"
        /\ Split(Getenv(env, "KUBECONFIG"), ":")
             = <<FirstOfKubeconfig(env)>> \o Split(ChosenSearchPath, ":")

\* C6: the preferences name two base files, the nickname a third path, and
\* the override wins
C6_Witness ==
    /\ last.cmd = "kset" /\ last.exit = 0
    /\ kconfig.Preferences.BaseKubeconfig = TestingConfig \o ":" \o RecommendedHomeFile
    /\ GivenDefinition.KubeConfig = TestingConfig
    /\ GivenOverrides.KubeConfig = RecommendedHomeFile
    /\ Len(Split(Getenv(env, "KUBECONFIG"), ":")) = 2

\* C7: when neither the nickname nor the command line gives a namespace or
\* a user, the session file is a pointer: its current-context is the
\* resolved context and it defines no context.  Otherwise it defines exactly
\* one context, named kconfig_context, with the cluster of the resolved
\* base context, with the namespace and the user of that context where
\* none is given, and its current-context is kconfig_context.
C7_FileShape ==
    (last.cmd = "kset" /\ last.exit = 0) =>
        IF ~NamespaceOrUserGiven
            THEN EmittedFile = YamlFile(ResolvedContext, {})
            ELSE /\ EmittedFile.kind = "yaml"
                 /\ EmittedFile.cc = kconfigContextName
                 /\ Cardinality(EmittedFile.ctxs) = 1
                 /\ \A c \in EmittedFile.ctxs : \E b \in ResolvedBaseContexts :
                      /\ c.name = kconfigContextName
                      /\ c.cluster = b.cluster
                      /\ (GivenDefinition.Namespace = "" /\ GivenOverrides.Namespace = "")
                           => c.namespace = b.namespace
                      /\ (GivenDefinition.User = "" /\ GivenOverrides.User = "")
                           => c.user = b.user

\* C7: a kset without namespace and user in a session whose file defined a
\* context leaves a pointer-only file
C7_Witness ==
    /\ last.cmd = "kset" /\ last.exit = 0
    /\ ~NamespaceOrUserGiven
    /\ PriorFiles[FirstOfKubeconfig(env)].ctxs # {}
    /\ EmittedFile.ctxs = {}

\* C8: the namespace of the emitted context is the -n override if given,
\* else the namespace of the nickname definition if given, else the
\* namespace of the base context; likewise the user with --user.
C8_NamespaceAndUser ==
    (last.cmd = "kset" /\ last.exit = 0 /\ NamespaceOrUserGiven) =>
        /\ EmittedFile.ctxs # {}
        /\ \A c \in EmittedFile.ctxs : \E b \in ResolvedBaseContexts :
            /\ c.namespace =
                 IF GivenOverrides.Namespace # "" THEN GivenOverrides.Namespace
                 ELSE IF GivenDefinition.Namespace # "" THEN GivenDefinition.Namespace
                 ELSE b.namespace
            /\ c.user =
                 IF GivenOverrides.User # "" THEN GivenOverrides.User
                 ELSE IF GivenDefinition.User # "" THEN GivenDefinition.User
                 ELSE b.user

\* C8: the nickname gives a namespace and a user, the command line overrides
\* the namespace, and the emitted context has the override's namespace and
\* the nickname's user
C8_Witness ==
    /\ last.cmd = "kset" /\ last.exit = 0
    /\ GivenDefinition.Namespace = "nns" /\ GivenDefinition.User = "nuser"
    /\ GivenOverrides.Namespace = "ovns" /\ GivenOverrides.User = ""
    /\ \E c \in EmittedFile.ctxs : c.namespace = "ovns" /\ c.user = "nuser"

\* the statements about KUBECONFIG among the lines a process wrote
KubeconfigStatements(stdout) ==
    SelectSeq(stdout, LAMBDA l : l.cmd \in {"export", "unset"} /\ l.name = "KUBECONFIG")

\* C11: koff sets KUBECONFIG from the preferences only.  A koff without
\* arguments that runs while KUBECONFIG is not empty, and that can read
\* kconfig.yaml, writes "export KUBECONFIG=<base_kubeconfig>" when the
\* preference is not empty and "unset KUBECONFIG" otherwise, as its first and
\* only statement about KUBECONFIG, whatever the value of KUBECONFIG is, and
\* the shell's KUBECONFIG becomes that.  A koff that runs while KUBECONFIG is
\* empty starts no process, writes nothing and removes nothing.
C11_KoffKubeconfigFromPreferences ==
    [][last'.cmd = "koff" =>
         IF Getenv(env, "KUBECONFIG") = ""
             THEN /\ ~last'.ran
                  /\ last'.stdout = <<>>
                  /\ files' = files
                  /\ env'["KUBECONFIG"] = env["KUBECONFIG"]
             ELSE (last'.args = <<>> /\ last'.fault # "kconfig") =>
                  /\ last'.ran /\ last'.exit = 0
                  /\ KubeconfigStatements(last'.stdout) =
                       <<IF kconfig.Preferences.BaseKubeconfig # ""
                             THEN Export("KUBECONFIG", kconfig.Preferences.BaseKubeconfig)
                             ELSE Unset("KUBECONFIG")>>
                  /\ Head(last'.stdout) = Head(KubeconfigStatements(last'.stdout))
                  /\ env'["KUBECONFIG"] =
                       IF kconfig.Preferences.BaseKubeconfig # ""
                           THEN SetVar(kconfig.Preferences.BaseKubeconfig)
                           ELSE UnsetVar]_vars

\* C11: koff has run in a shell whose KUBECONFIG named a file of the user's
\* and no session file, the preferences name no base file, and KUBECONFIG
\* is unset now; and a koff has run in a shell without KUBECONFIG
C11_Witness ==
    /\ last.cmd = "koff" /\ last.args = <<>> /\ last.ran /\ last.exit = 0
    /\ last.prev.cmd = ""
    /\ kconfig.Preferences.BaseKubeconfig = ""
    /\ last.stdout = <<Unset("KUBECONFIG")>>
    /\ ~env["KUBECONFIG"].set

\* C12 as the specification states it: after a successful kset followed by
\* koff, KUBECONFIG, PS1 and _KCONFIG_KUBECTL are what they were immediately
\* before the kset, whatever they were.
C12_KoffResetsEnvironment ==
    [][(last.cmd = "kset" /\ last.exit = 0 /\ last'.cmd = "koff") =>
         \A v \in {"KUBECONFIG", "PS1", "_KCONFIG_KUBECTL"} :
             env'[v] = hist.before[v]]_vars

\* the value a process wrote for _KP
PromptWritten(stdout) ==
    LET kp == SelectSeq(stdout, LAMBDA l : l.cmd = "assign" /\ l.name = "_KP")
    IN IF kp = <<>> THEN "" ELSE kp[1].value

\* C13 as the specification states it, for every original value of PS1:
\* after a kset that writes a prompt prefix, PS1 is "(<that prefix>) "
\* followed by the value PS1 had before the first such kset, however many
\* came before it, and koff gives PS1 the value it had before the first kset
\* changed it.
C13_PromptNeverAccumulates ==
    [][/\ (last'.cmd = "kset" /\ EmitsPrompt(last'.stdout)) =>
            Getenv(env', "PS1")
                = "(" \o PromptWritten(last'.stdout) \o ") " \o Getenv(hist', "ps1")
       /\ (last'.cmd = "koff" /\ hist.known) =>
            Getenv(env', "PS1") = Getenv(hist, "ps1")]_vars

----------------------------------------------------------------------------
(* The prompt prefix and the executable, over SpecPrompt. *)

\* what kconfig.yaml defines for the nickname and what the command line gave
PromptDefinition ==
    CHOOSE d \in PromptDefinitions : DefinitionOf(d) = kconfig.Nicknames[WideNickname]
PromptGiven == CHOOSE o \in PromptOverrides : WideKsetArgs(o) = last.args

\* the overrides of the command line as the prompt shows them
OverridesShown ==
    Join((IF PromptGiven.Namespace # "" THEN <<"ns=" \o PromptGiven.Namespace>> ELSE <<>>)
         \o (IF PromptGiven.User # "" THEN <<"u=" \o PromptGiven.User>> ELSE <<>>), ",")

\* the prefix the specification describes when the namespace is not always
\* shown
PrefixWithOverrides ==
    IF (PromptGiven.Namespace = "" /\ PromptGiven.User = "")
       \/ kconfig.Preferences.ShowOverridesInPrompt = "false"
        THEN WideNickname
        ELSE WideNickname \o "[" \o OverridesShown \o "]"

\* C14 as the specification states it: _KP is written iff change_prompt is
\* unset or true, and its value is the nickname alone when the command line
\* gave no namespace and no user or when show_overrides_in_prompt is false,
\* and otherwise nickname[ns=<namespace>,u=<user>] with the fields the
\* command line gave.
C14_PromptPrefix ==
    (last.cmd = "kset" /\ last.exit = 0) =>
        /\ EmitsPrompt(last.stdout) <=> kconfig.Preferences.ChangePrompt \in {"nil", "true"}
        /\ EmitsPrompt(last.stdout) => PromptWritten(last.stdout) = PrefixWithOverrides

\* C14: the same, for the preferences where always_show_namespace_in_prompt
\* is false: _KP is written iff change_prompt is unset or true; its value is
\* the nickname alone when the command line gave no namespace and no user or
\* when show_overrides_in_prompt is false, and otherwise the nickname followed
\* by the fields of the command line only, ns= before u=, in brackets.
C14_PromptPrefixByDefault ==
    (last.cmd = "kset" /\ last.exit = 0) =>
        /\ EmitsPrompt(last.stdout) <=> kconfig.Preferences.ChangePrompt \in {"nil", "true"}
        /\ (EmitsPrompt(last.stdout) /\ ~kconfig.Preferences.AlwaysShowNamespaceInPrompt)
               => PromptWritten(last.stdout) = PrefixWithOverrides

\* C14: the nickname defines a namespace and a user, the command line gave
\* only a user, and the prefix shows the user alone
C14_Witness ==
    /\ last.cmd = "kset" /\ last.exit = 0
    /\ ~kconfig.Preferences.AlwaysShowNamespaceInPrompt
    /\ kconfig.Preferences.ShowOverridesInPrompt = "nil"
    /\ PromptDefinition.Namespace = "nns" /\ PromptDefinition.User = "nuser"
    /\ PromptGiven.Namespace = "" /\ PromptGiven.User = "ovuser"
    /\ PromptWritten(last.stdout) = "nick[u=ovuser]"
    /\ Getenv(env, "PS1") = "(nick[u=ovuser]) $ "

\* the namespace of the context the session file defines or selects
\* ("default" when it has none)
EffectiveNamespace ==
    LET ctxs == IF EmittedFile.ctxs # {} THEN EmittedFile.ctxs
                ELSE files[RecommendedHomeFile].ctxs
        ns == (CHOOSE c \in ctxs : c.name = EmittedFile.cc).namespace
    IN IF ns = "" THEN "default" ELSE ns

\* C15 as the specification states it: with always_show_namespace_in_prompt
\* true and the prompt being changed, for every nickname, every override and
\* every setting of show_overrides_in_prompt, _KP is
\* nickname[ns=<effective namespace>], with ,u=<user> after the namespace
\* only when the command line gave a user and overrides are shown.
C15_NamespaceAlwaysShown ==
    (/\ last.cmd = "kset" /\ last.exit = 0
     /\ kconfig.Preferences.AlwaysShowNamespaceInPrompt
     /\ kconfig.Preferences.ChangePrompt \in {"nil", "true"}) =>
        PromptWritten(last.stdout) =
            WideNickname \o "[ns=" \o EffectiveNamespace
            \o (IF PromptGiven.User # ""
                   /\ kconfig.Preferences.ShowOverridesInPrompt # "false"
                    THEN ",u=" \o PromptGiven.User ELSE "")
            \o "]"

\* the executable the specification resolves for the nickname
ResolvedExecutable ==
    IF PromptDefinition.exe # "" THEN PromptDefinition.exe
    ELSE IF kconfig.Preferences.DefaultKubectl # "" THEN kconfig.Preferences.DefaultKubectl
    ELSE "kubectl"

\* C16: the executable kset reports in _KCONFIG_KUBECTL is the first word
\* of the nickname definition when that word does not start with a dash,
\* otherwise default_kubectl when it is not empty, otherwise "kubectl"; and
\* a first word taken as the executable is not parsed as an option: kset
\* succeeds and the options after it select the context, the namespace and
\* the user as they do without an executable.
C16_ExecutableResolution ==
    last.cmd = "kset" =>
        /\ last.exit = 0
        /\ SelectSeq(last.stdout, LAMBDA l : l.name = "_KCONFIG_KUBECTL")
               = <<Export("_KCONFIG_KUBECTL", ResolvedExecutable)>>
        /\ env["_KCONFIG_KUBECTL"] = SetVar(ResolvedExecutable)
        /\ IF EmittedFile.ctxs = {}
               THEN /\ EmittedFile.cc = PromptDefinition.Context
                    /\ PromptDefinition.Namespace = "" /\ PromptDefinition.User = ""
               ELSE \A c \in EmittedFile.ctxs :
                      /\ c.cluster = (CHOOSE b \in files[RecommendedHomeFile].ctxs :
                                          b.name = PromptDefinition.Context).cluster
                      /\ PromptGiven.Namespace = "" /\ PromptDefinition.Namespace # ""
                             => c.namespace = PromptDefinition.Namespace
                      /\ PromptGiven.User = "" /\ PromptDefinition.User # ""
                             => c.user = PromptDefinition.User

\* C16: the definition starts with the executable "oc" while the
\* preferences name another default, kset reports "oc", and the namespace
\* that follows it in the definition is in the session file
C16_Witness ==
    /\ last.cmd = "kset" /\ last.exit = 0
    /\ PromptDefinition.exe = "oc" /\ PromptDefinition.Namespace = "nns"
    /\ kconfig.Preferences.DefaultKubectl = "kubectl-default"
    /\ PromptGiven.Namespace = ""
    /\ env["_KCONFIG_KUBECTL"] = SetVar("oc")
    /\ \E c \in EmittedFile.ctxs : c.namespace = "nns"

----------------------------------------------------------------------------
(* The launcher, over SpecLauncher. *)

\* C17 as the specification states it: without the -k option the launcher
\* looks up the executable named by _KCONFIG_KUBECTL, and when that variable
\* is not set the preference default_kubectl, and when there is none the
\* name "kubectl".
C17_LauncherExecutable ==
    (/\ last.cmd = "kubectl" /\ last.executable # ""
     /\ last.args[1] \notin {"-k", "--kconfig"}) =>
        last.executable =
            IF Getenv(env, "_KCONFIG_KUBECTL") # "" THEN Getenv(env, "_KCONFIG_KUBECTL")
            ELSE IF kconfig.Preferences.DefaultKubectl # ""
                THEN kconfig.Preferences.DefaultKubectl
            ELSE "kubectl"

\* the file a path denotes is the launcher itself
DenotesLauncher(path) == Stat(host, path) \in {"launcher", "link"}

\* the entries of PATH for a name, in order: <directory>/<name>, an empty
\* element standing for the current directory
PathEntries(name) ==
    [i \in DOMAIN SplitList(host.PATH) |->
        (IF SplitList(host.PATH)[i] = "" THEN "." ELSE SplitList(host.PATH)[i])
        \o "/" \o name]

\* the entries that are executable files, not directories, other than the
\* launcher
Eligible(name) ==
    {i \in DOMAIN PathEntries(name) :
        /\ Stat(host, PathEntries(name)[i]) \in {"exec", "launcher", "link"}
        /\ ~DenotesLauncher(PathEntries(name)[i])}

\* C18 as the specification states it: the path findExecutable returns
\* never denotes the launcher's own executable, and for a name without a
\* slash it is the first entry, in PATH order, that is an executable file
\* other than the launcher, and an error when there is none.
C18_LauncherSkipsItself ==
    (last.cmd = "kubectl" /\ last.executable # "") =>
        /\ last.target # "" => ~DenotesLauncher(last.target)
        /\ ~Contains(last.executable, "/") =>
             IF Eligible(last.executable) = {}
                 THEN last.target = "" /\ last.exit = 1
                 ELSE /\ last.exit = 0
                      /\ Abs(host.cwd, last.target)
                           = Abs(host.cwd,
                                 PathEntries(last.executable)[
                                     CHOOSE i \in Eligible(last.executable) :
                                         \A j \in Eligible(last.executable) : i <= j])

\* the launcher's arguments ask for one-shot mode: the option is the first
\* argument and a nickname that does not start with a dash follows it
OneShotAsked(args) ==
    /\ Len(args) >= 2
    /\ args[1] \in {"-k", "--kconfig"}
    /\ ~HasPrefix(args[2], "-")

\* the variables of the calling shell that hold the session and the prompt
SessionVariables == {"KUBECONFIG", "_KCONFIG_KUBECTL", "_KCONFIG_KSET", "PS1"}

\* C19: a run of the launcher changes no file but, in one-shot mode, the
\* file named after the nickname in the nicks directory; the option
\* anywhere else than first, or followed by a word that starts with a dash,
\* changes no file at all; the session file named in the caller's
\* KUBECONFIG is neither written, replaced nor removed; and KUBECONFIG,
\* _KCONFIG_KUBECTL, _KCONFIG_KSET and the prompt of the calling shell are
\* after the command what they were before it.
C19_OneShotLeavesSession ==
    [][(steps' = steps + 1 /\ last'.cmd = "kubectl") =>
          /\ \A p \in DOMAIN files :
                files'[p] # files[p] =>
                    /\ OneShotAsked(last'.args)
                    /\ p = NicknameFileName(last'.args[2])
                    /\ HasPrefix(p, kconfigTmpNicknameDir \o "/")
          /\ GetExistingSessionLocalFilename(Getenv(env, "KUBECONFIG")) # "" =>
                files'[GetExistingSessionLocalFilename(Getenv(env, "KUBECONFIG"))]
                    = files[GetExistingSessionLocalFilename(Getenv(env, "KUBECONFIG"))]
          /\ \A n \in SessionVariables : env'[n] = env[n]]_vars

\* a one-shot command has written the nickname's file while the shell's
\* KUBECONFIG names the session file an earlier kset created
C19_Witness ==
    /\ last.cmd = "kubectl" /\ last.exit = 0
    /\ OneShotAsked(last.args)
    /\ files[NicknameFileName(last.args[2])].kind # "absent"
    /\ last.prev.cmd = "kset" /\ last.prev.exit = 0
    /\ GetExistingSessionLocalFilename(Getenv(env, "KUBECONFIG")) # ""
    /\ files[GetExistingSessionLocalFilename(Getenv(env, "KUBECONFIG"))].kind # "absent"
    /\ Getenv(env, "_KCONFIG_KSET") # ""

\* the files of the nicks directory
NicknameFiles(fs) ==
    {p \in DOMAIN fs : HasPrefix(p, kconfigTmpNicknameDir \o "/") /\ fs[p].kind # "absent"}

\* the files of the nicks directory are files of defined nicknames, and
\* there are at most as many as there are defined nicknames
NicknameFilesBounded ==
    /\ NicknameFiles(files) \subseteq {NicknameFileName(n) : n \in DOMAIN kconfig.Nicknames}
    /\ Cardinality(NicknameFiles(files)) <= Cardinality(DOMAIN kconfig.Nicknames)

\* a one-shot command adds no file but its nickname's, removes none, and
\* after a successful one its nickname's file exists
OneShotFilePerNickname ==
    (steps' = steps + 1 /\ last'.cmd = "kubectl" /\ OneShotAsked(last'.args)) =>
          /\ NicknameFiles(files) \subseteq NicknameFiles(files')
          /\ NicknameFiles(files') \subseteq
                 NicknameFiles(files) \cup {NicknameFileName(last'.args[2])}
          /\ last'.exit = 0 => NicknameFileName(last'.args[2]) \in NicknameFiles(files')

\* C20: after any sequence of one-shot commands, successful or failed, the
\* number of files in the nicks directory is at most the number of defined
\* nicknames: there is one file per nickname used, and a command that uses
\* a nickname again overwrites its file.
C20_OneShotFilesBounded ==
    []NicknameFilesBounded /\ [][OneShotFilePerNickname]_vars

\* more successful one-shot commands have run than there are nicknames: the
\* last one used a nickname whose file existed, and every defined nickname
\* has its file
C20_Witness ==
    /\ steps = MaxOneShots /\ steps > Cardinality(DOMAIN kconfig.Nicknames)
    /\ last.cmd = "kubectl" /\ last.exit = 0 /\ OneShotAsked(last.args)
    /\ last.prev.cmd = "kubectl" /\ last.prev.exit = 0 /\ last.prev.args = last.args
    /\ NicknameFiles(files) = {NicknameFileName(n) : n \in DOMAIN kconfig.Nicknames}

\* a successful kset has just run
KsetSucceeds == steps' = steps + 1 /\ last'.cmd = "kset" /\ last'.exit = 0

\* the process of koff has just run
KoffRuns == steps' = steps + 1 /\ last'.cmd = "koff" /\ last'.ran /\ last'.exit = 0

\* kset moves a different, non-empty _KCONFIG_KSET into _KCONFIG_OLDKSET and
\* leaves _KCONFIG_OLDKSET alone when the description is the same
KsetKeepsPrevious ==
    KsetSucceeds =>
        /\ (Getenv(env, "_KCONFIG_KSET") # ""
            /\ Getenv(env, "_KCONFIG_KSET") # Getenv(env', "_KCONFIG_KSET")) =>
               Getenv(env', "_KCONFIG_OLDKSET") = Getenv(env, "_KCONFIG_KSET")
        /\ Getenv(env, "_KCONFIG_KSET") = Getenv(env', "_KCONFIG_KSET") =>
               env'["_KCONFIG_OLDKSET"] = env["_KCONFIG_OLDKSET"]

\* "kset -" puts the previous environment in effect and makes the one it
\* leaves the previous one
DashSwitches ==
    (steps' = steps + 1 /\ last'.cmd = "kset" /\ last'.args = <<"-">>
     /\ Getenv(env, "_KCONFIG_OLDKSET") # "") =>
        /\ last'.exit = 0
        /\ Getenv(env', "_KCONFIG_KSET") = Getenv(env, "_KCONFIG_OLDKSET")
        /\ Getenv(env, "_KCONFIG_KSET") \notin {"", Getenv(env, "_KCONFIG_OLDKSET")} =>
               Getenv(env', "_KCONFIG_OLDKSET") = Getenv(env, "_KCONFIG_KSET")

\* koff moves _KCONFIG_KSET into _KCONFIG_OLDKSET
KoffKeepsPrevious ==
    (KoffRuns /\ Getenv(env, "_KCONFIG_KSET") # "") =>
        Getenv(env', "_KCONFIG_OLDKSET") = Getenv(env, "_KCONFIG_KSET")

\* C21 as the specification states it: kset keeps the environment it
\* replaces in _KCONFIG_OLDKSET, koff keeps the environment it leaves there,
\* and "kset -" re-establishes what _KCONFIG_OLDKSET describes, so that
\* "kset -" after "kset A; kset B" or after "kset A; koff" gives A back.
C21_PreviousEnvironment ==
    [][KsetKeepsPrevious /\ DashSwitches /\ KoffKeepsPrevious]_vars

\* the nickname a description of a kset environment starts with
RecordedNickname(description) ==
    CHOOSE n \in DOMAIN kconfig.Nicknames :
        description = n \/ HasPrefix(description, n \o " ")

\* the namespace the definition of a nickname gives, else the one of the
\* context it names
NicknameNamespace(nickname) ==
    IF parseNicknameDefinition(kconfig, kconfig.Nicknames[nickname]).opts.Namespace # ""
        THEN parseNicknameDefinition(kconfig, kconfig.Nicknames[nickname]).opts.Namespace
    ELSE "devnamespace1"

\* the contexts of the session file of an environment
SessionContexts(fs, e) == fs[FirstOfKubeconfig(e)].ctxs

\* a kset with these arguments has just run
KsetRuns(args) == steps' = steps + 1 /\ last'.cmd = "kset" /\ last'.args = args

\* C22: kset with overrides and no nickname uses the nickname of
\* _KCONFIG_KSET, and "kset -" with overrides the nickname of
\* _KCONFIG_OLDKSET; the overrides recorded there are discarded, so the new
\* description and the session file have the overrides of the command line
\* only; a plain "kset -" re-applies the nickname and the overrides of
\* _KCONFIG_OLDKSET.
C22_NicknameReused ==
    [][/\ (KsetRuns(<<"-n", "ns2">>) /\ Getenv(env, "_KCONFIG_KSET") # "") =>
             /\ last'.exit = 0
             /\ Getenv(env', "_KCONFIG_KSET")
                  = RecordedNickname(Getenv(env, "_KCONFIG_KSET")) \o " -n ns2"
             /\ SessionContexts(files', env') # {}
             /\ \A c \in SessionContexts(files', env') :
                    c.namespace = "ns2" /\ c.user = "devuser1"
       /\ (KsetRuns(<<"-", "--user", "ovuser">>) /\ Getenv(env, "_KCONFIG_OLDKSET") # "") =>
             /\ last'.exit = 0
             /\ Getenv(env', "_KCONFIG_KSET")
                  = RecordedNickname(Getenv(env, "_KCONFIG_OLDKSET")) \o " --user ovuser"
             /\ SessionContexts(files', env') # {}
             /\ \A c \in SessionContexts(files', env') :
                    /\ c.user = "ovuser"
                    /\ c.namespace
                         = NicknameNamespace(RecordedNickname(Getenv(env, "_KCONFIG_OLDKSET")))
       /\ (KsetRuns(<<"-">>) /\ Getenv(env, "_KCONFIG_OLDKSET") # "") =>
             /\ last'.exit = 0
             /\ Getenv(env', "_KCONFIG_KSET") = Getenv(env, "_KCONFIG_OLDKSET")
             /\ Getenv(env, "_KCONFIG_OLDKSET") = "app -n ovns" =>
                    /\ SessionContexts(files', env') # {}
                    /\ \A c \in SessionContexts(files', env') : c.namespace = "ovns"
             /\ Getenv(env, "_KCONFIG_OLDKSET") = "app --user ovuser" =>
                    /\ SessionContexts(files', env') # {}
                    /\ \A c \in SessionContexts(files', env') :
                           c.namespace = "app1" /\ c.user = "ovuser"]_vars

\* "kset app -n ovns; kset dev; kset - --user ovuser": the session is app
\* with the user ovuser and the namespace of app's definition, not ovns, and
\* dev is the previous environment
C22_Witness ==
    /\ steps = 3
    /\ last.cmd = "kset" /\ last.exit = 0
    /\ last.args = <<"-", "--user", "ovuser">>
    /\ last.prev.cmd = "kset" /\ last.prev.exit = 0 /\ last.prev.args = <<"dev">>
    /\ Getenv(env, "_KCONFIG_KSET") = "app --user ovuser"
    /\ Getenv(env, "_KCONFIG_OLDKSET") = "dev"
    /\ \E c \in SessionContexts(files, env) : c.namespace = "app1" /\ c.user = "ovuser"

\* the nicknames asked about; none holds "="
ProbedNicknames == {"dev", "ka", "kb", "#x", "noequals", "", "# nicknames"}

\* kalias.txt is a source of nicknames
KaliasVisible == host.kalias.exists /\ (~host.yaml.exists \/ host.yaml.ReadKaliasConfig)

\* a line of kalias.txt that is not blank, is no comment, holds "=" and
\* something after it, gives nickname n the definition d
KaliasDefines(n, d) ==
    \E i \in DOMAIN host.kalias.lines :
        /\ TrimSpace(host.kalias.lines[i]) = n \o "=" \o d
        /\ d # ""
        /\ ~HasPrefix(TrimSpace(host.kalias.lines[i]), "#")

\* kconfig.yaml defines nickname n
YamlDefines(n) == host.yaml.exists /\ n \in DOMAIN host.yaml.Nicknames

\* the definitions the lines of kalias.txt can give
KaliasDefinitions == {"--context prod", "--context stage"}

\* a visible source defines nickname n
SourcesDefine(n) ==
    \/ YamlDefines(n)
    \/ (KaliasVisible /\ \E d \in KaliasDefinitions : KaliasDefines(n, d))

\* C23: a nickname is defined iff kconfig.yaml defines it, or kalias.txt is
\* visible (kconfig.yaml does not exist or read_kalias_config is true) and
\* one of its lines defines it; the definition of kconfig.yaml takes
\* precedence; blank lines, comments, lines without "=" and empty
\* definitions define nothing; and kset with a nickname defined in neither
\* visible source fails with 'Nickname "<name>" is not defined.'
C23_NicknameSources ==
    /\ \A n \in ProbedNicknames :
        /\ n \in DOMAIN kconfig.Nicknames <=> SourcesDefine(n)
        /\ YamlDefines(n) => kconfig.Nicknames[n] = host.yaml.Nicknames[n]
        /\ (n \in DOMAIN kconfig.Nicknames /\ ~YamlDefines(n)) =>
               KaliasDefines(n, kconfig.Nicknames[n])
    /\ (last.cmd = "kset" /\ Len(last.args) = 1) =>
        IF SourcesDefine(last.args[1])
            THEN last.exit = 0
            ELSE /\ last.exit = 1
                 /\ last.stderr = <<"Nickname \"" \o last.args[1] \o "\" is not defined.">>
                 /\ last.stdout = <<>>

\* kset has run with a nickname both files define, kalias.txt being
\* visible, and the session has the context of kconfig.yaml's definition
C23_Witness ==
    /\ last.cmd = "kset" /\ last.args = <<"dev">> /\ last.exit = 0
    /\ host.yaml.ReadKaliasConfig
    /\ host.kalias.lines = <<"dev=--context prod", "  kb=--context stage  ">>
    /\ kconfig.Nicknames = ("dev" :> "--context dev") @@ ("kb" :> "--context stage")
    /\ files[FirstOfKubeconfig(env)].cc = "dev"

\* the session file a shell's KUBECONFIG names, or ""
SessionFileOf(e) == GetExistingSessionLocalFilename(Getenv(e, "KUBECONFIG"))

\* the two shells do not name the same session file, and a session file a
\* shell names exists
SessionsApart ==
    /\ SessionFileOf(env) # "" => SessionFileOf(env) # SessionFileOf(peer)
    /\ SessionFileOf(env) # "" => files[SessionFileOf(env)].kind # "absent"
    /\ SessionFileOf(peer) # "" => files[SessionFileOf(peer)].kind # "absent"

\* a command of the shell at hand changes neither the variables of the
\* other shell nor the session file it names
PeerUntouched ==
    steps' = steps + 1 =>
        /\ peer' = peer
        /\ SessionFileOf(peer) # "" =>
               files'[SessionFileOf(peer)] = files[SessionFileOf(peer)]

C25_DescriptionRoundTrip ==
    (last.cmd = "kset" /\ steps = 1)
        => /\ getArgsFromKsetArgs(Getenv(env, "_KCONFIG_KSET")) = last.args
           /\ getNicknameFromKsetArgs(Getenv(env, "_KCONFIG_KSET")) = last.args[1]

\* the positional arguments of the kset that has just run, when the parser
\* accepted its options
Positional(args) == ParseArgs(args).positional

\* the kset that has just run was rejected: a message on the standard error,
\* nothing on the standard output, no session file created or changed
KsetRejected ==
    /\ last'.exit # 0
    /\ last'.stderr # <<>>
    /\ last'.stdout = <<>>
    /\ \A p \in SessionFiles : files'[p] = files[p]

\* C26: kset with more than one positional argument is rejected; kset with
\* no nickname is rejected when _KCONFIG_KSET is empty and is not when it is
\* non-empty; kset with the nickname "-" is rejected when _KCONFIG_OLDKSET is
\* empty and is not when it is non-empty; a rejected kset writes a message to
\* the standard error, nothing to the standard output, and creates or
\* changes no session file.
C26_PositionalArguments ==
    [][(steps' = steps + 1 /\ last'.cmd = "kset" /\ ParseArgs(last'.args).err = "") =>
         LET positional == Positional(last'.args) IN
         /\ Len(positional) > 1 => KsetRejected
         /\ Len(positional) = 0 =>
                (KsetRejected <=> Getenv(env, "_KCONFIG_KSET") = "")
         /\ (Len(positional) = 1 /\ positional[1] = "-") =>
                (KsetRejected <=> Getenv(env, "_KCONFIG_OLDKSET") = "")]_vars

\* a kset with a second positional argument was rejected in a session with
\* an environment in effect, after a kset without a nickname was accepted
C26_Witness ==
    /\ last.cmd = "kset" /\ last.args = <<"dev", "extra">>
    /\ last.exit = 1 /\ last.stdout = <<>>
    /\ last.stderr
         = <<"Unrecognized positional argument provided after the kconfig nickname.">>
    /\ last.prev.cmd = "kset" /\ last.prev.args = <<>> /\ last.prev.exit = 0
    /\ Getenv(env, "_KCONFIG_KSET") = "dev"
    /\ \E p \in SessionFiles : files[p].kind # "absent"

\* the process of "kset args" in a shell that has no session yet
FreshKset(args) ==
    KconfigUtilKset(InitialFiles, InitialEnv(UnsetVar), kconfig, args, "none",
                    SessionFileName(1))

\* the search path that follows the session file in a value of KUBECONFIG
AfterSessionFile(value) ==
    SubSeq(value, Len(GetExistingSessionLocalFilename(value)) + 2, Len(value))

\* what kset prints apart from KUBECONFIG and the transfer of the previous
\* description: the Teleport proxy, the prompt prefix with the overrides
\* description, the executable, the description
Established(stdout) ==
    SelectSeq(stdout, LAMBDA s : s.name \notin {"KUBECONFIG", "_KCONFIG_OLDKSET"})

\* the last kset left what the process fresh leaves, but for the file's name
SameAsFresh(fresh) ==
    /\ fresh.exit = 0
    /\ files[SessionFileOf(env)] = fresh.fs[SessionFileName(1)]
    /\ AfterSessionFile(Getenv(env, "KUBECONFIG"))
         = AfterSessionFile(fresh.stdout[1].value)
    /\ Established(last.stdout) = Established(fresh.stdout)
    /\ <<Export("_KCONFIG_KUBECTL", Getenv(env, "_KCONFIG_KUBECTL"))>>
         = SelectSeq(fresh.stdout, LAMBDA s : s.name = "_KCONFIG_KUBECTL")

\* C27: a successful kset of a nickname leaves the session file's content,
\* the search path after the session file, the executable and the overrides
\* description that the same kset leaves in a shell without a session,
\* whatever the session's file and KUBECONFIG held before; only the file's
\* name may differ.
C27_FreshBase ==
    (/\ last.cmd = "kset" /\ last.exit = 0 /\ last.fault = "none"
     /\ Positional(last.args) # <<>>
     /\ Positional(last.args)[1] # "-")
        => SameAsFresh(FreshKset(last.args))

\* a kset that needs a pointer-only file has run in a session whose file
\* held kconfig_context, and the file holds no context any more
C27_Witness ==
    /\ last.cmd = "kset" /\ last.exit = 0
    /\ Getenv(env, "_KCONFIG_OLDKSET") = "nick -n oldns"
    /\ SessionFileOf(env) = SessionFileName(1)
    /\ PriorFiles[SessionFileName(1)].ctxs # {}
    /\ files[SessionFileName(1)].ctxs = {}
    /\ files[SessionFileName(1)].cc = "test2"

\* the Teleport proxy a description asks for: the one of its overrides, else
\* the one of its nickname's definition, else ""
DescribedProxy(description) ==
    IF ParseArgs(getArgsFromKsetArgs(description)).opts.TeleportProxy # ""
        THEN ParseArgs(getArgsFromKsetArgs(description)).opts.TeleportProxy
    ELSE parseNicknameDefinition(
             kconfig, kconfig.Nicknames[RecordedNickname(description)]).opts.TeleportProxy

\* the value kset printed for a variable, as the shell's variable
Printed(stdout, name) ==
    LET statements == SelectSeq(stdout, LAMBDA s : s.name = name) IN
    IF statements = <<>> THEN UnsetVar ELSE SetVar(statements[1].value)

\* KUBECONFIG and _KCONFIG_KUBECTL are those the kset has printed
LatestKubeconfigAndExecutable ==
    KsetSucceeds =>
        /\ env'["KUBECONFIG"] = Printed(last'.stdout, "KUBECONFIG")
        /\ env'["_KCONFIG_KUBECTL"] = Printed(last'.stdout, "_KCONFIG_KUBECTL")

\* TELEPORT_PROXY is set exactly when the environment of the kset asks for a
\* Teleport proxy, and then to that proxy
LatestTeleportProxy ==
    KsetSucceeds =>
        env'["TELEPORT_PROXY"]
          = (IF DescribedProxy(Getenv(env', "_KCONFIG_KSET")) # ""
                 THEN SetVar(DescribedProxy(Getenv(env', "_KCONFIG_KSET")))
                 ELSE UnsetVar)

\* C28: after every successful kset, KUBECONFIG and _KCONFIG_KUBECTL are
\* those of that kset, and TELEPORT_PROXY is set exactly when its nickname or
\* its overrides specify a Teleport proxy, to that proxy: after "kset A;
\* kset B", where only A specifies a proxy, TELEPORT_PROXY is not A's proxy.
C28_LatestEnvironment ==
    [][LatestKubeconfigAndExecutable /\ LatestTeleportProxy]_vars

====
